---- MODULE Spec2Model ----
(***************************************************************************)
(* lighter-md: the ingestion-to-fanout pipeline.                           *)
(*                                                                         *)
(*   bus.py        UpdateBus: fan-out queues with newest-wins drop         *)
(*   store.py      MarketStore: per-market merge, derivation, debounce     *)
(*   ws_client.py  run_ws_loop / _handle_connection / _sender              *)
(*   ws_manager.py WebSocketManager: discovery, subscription replay        *)
(*   dashboard.py  websocket_updates: snapshot, then the bus stream        *)
(*                                                                         *)
(* The program runs on one asyncio event loop: a coroutine runs until it   *)
(* awaits something that is not ready.  An action of this module is one    *)
(* such run.  asyncio.Lock.acquire returns without suspending when the     *)
(* lock is free, and neither the bus lock nor the store lock is ever held  *)
(* across an await, so no task ever finds them taken: `async with          *)
(* self._lock` is no suspension point and the locks need no variable.      *)
(*                                                                         *)
(* Numbers.  Optional[float] is modelled as a set with at most one         *)
(* element: None is {} and the float v is {v}.  Floats are integers; the   *)
(* inputs are drawn from sets on which the divisions of the code are       *)
(* exact.  Wall-clock time is an integer number of ticks.                  *)
(***************************************************************************)
EXTENDS Integers, Sequences, FiniteSets, TLC

VARIABLES
    \* ---- MarketStore (store.py) ----
    rows,          \* _rows: market id -> MarketRow, NoRow when absent
    last_publish,  \* _last_publish, 0 when absent (dict.get(mid, 0.0))
    pending,       \* _pending: market id -> (row, fields), NoPending when absent
    flush_tasks,   \* _flush_tasks: market id -> the sleeping task's deadline
    now,           \* time.time(), in ticks
    \* ---- UpdateBus (bus.py) ----
    subscribers,   \* _subscribers: the registered queues, by owner
    queues,        \* the content of each owner's asyncio.Queue
    sub_state,     \* each owner's position in its handler / generator
    \* ---- WebSocketManager and the client loop ----
    known_markets, \* _known_markets
    outbound,      \* _outbound: the asyncio.Queue of control messages
    phase,         \* run_ws_loop: "connecting", "session" or "sleeping"
    reader,        \* _handle_connection: where it is, and the puts it still owes
    sender,        \* _sender: where it is, and the message it is sending
    socket,        \* the channels written to the current session's socket
    backoff,       \* run_ws_loop: backoff, in units of 250 ms
    sleep,         \* run_ws_loop: the delay and jitter of the sleep under way
    \* ---- observation (no counterpart in the program) ----
    store_obs,     \* emissions of the store and the changes behind them
    bus_obs,       \* what was published to, and dequeued by, each owner
    client_obs,    \* what the manager and the client loop did
    call_obs,      \* the last merge call of the store, before and after
    wire,          \* the channels written to the session's socket, in order
    \* ---- FundingAnalytics (analytics.py) ----
    analytics,     \* _task, _stop_event, the timer of wait_for, _latest
    funding_obs,   \* what was published on the funding bus; the last z-score call
    \* ---- WebSocketManager, its tasks told apart (ws_manager.py) ----
    manager        \* _task, _stop_event, the loop tasks created, the stop() calls under way

storeVars == <<rows, last_publish, pending, flush_tasks, now>>
busVars == <<subscribers, queues, sub_state>>
clientVars == <<known_markets, outbound, phase, reader, sender, socket, backoff, sleep>>
obsVars == <<store_obs, bus_obs, client_obs, call_obs>>
analyticsVars == <<analytics, funding_obs>>
managerVars == <<manager>>
vars == <<storeVars, busVars, clientVars, obsVars, analyticsVars, managerVars, wire>>

----------------------------------------------------------------------------
(* Bounds of the model *)

NumMarkets == 2
NumSubs == 2
MaxTasks == 3
MaxTime == 5
MaxPublished == 4
MaxRetries == 3

(* Settings, scaled to the model *)

\* config.py: ui_debounce_seconds = 0.2, in ticks of 100 ms; store.py keeps
\* self._debounce = max(settings.ui_debounce_seconds, 0.05)
Debounce == 2
\* bus.py: QUEUE_SIZE (128 or 512), scaled down
QUEUE_SIZE == 2
\* ws_manager.py: asyncio.Queue(maxsize=1024), scaled down
OutboundMax == 3
\* store.py: math.isclose(left, right, rel_tol=1e-9, abs_tol=1e-9)
TolInverse == 1000000000
\* config.py: reconnect_base_delay = 0.5, in units of 250 ms
ReconnectBase == 2
\* config.py: reconnect_max_delay (30.0), scaled down, in units of 250 ms
ReconnectMax == 6
\* ws_client.py: the 1.0 of min(1.0, delay / 2), in units of 250 ms
JitterCap == 4

Markets == 1..NumMarkets
Subs == 1..NumSubs
TaskIds == 1..MaxTasks

----------------------------------------------------------------------------
(* Optional[float] *)

None == {}
Some(v) == {v}
Val(o) == CHOOSE v \in o : TRUE

Abs(x) == IF x < 0 THEN -x ELSE x
Max2(a, b) == IF a >= b THEN a ELSE b
Min2(a, b) == IF a <= b THEN a ELSE b

----------------------------------------------------------------------------
(* store.py: MarketRow *)

NumericFields ==
    {"best_bid_price", "best_bid_size", "best_ask_price", "best_ask_size",
     "last_price", "mark_price", "index_price", "mid_price", "daily_volume",
     "funding_rate", "open_interest", "basis", "markout", "spread"}

MarketRowFields == {"market_id", "symbol", "updated_ms"} \cup NumericFields

NoRow == [none |-> TRUE]

\* _load_metadata: market 2 has a symbol in the metadata file, the others none
Metadata(market_id) == IF market_id = 2 THEN Some(<<"SYM", market_id>>) ELSE None

\* _now_ms: int(time.time() * 1000); a tick is 100 ms
MsPerTick == 100
_now_ms(t) == t * MsPerTick

\* target[field] = value, on a dict
SetField(target, field, value) ==
    [f \in DOMAIN target |-> IF f = field THEN value ELSE target[f]]

_fresh_row(market_id, t) ==
    [f \in MarketRowFields |->
        CASE f = "market_id" -> market_id
          [] f = "symbol" -> Metadata(market_id)
          [] f = "updated_ms" -> _now_ms(t)
          [] OTHER -> None]

\* MarketRow.for_wire: model_dump() with symbol defaulted to "MKT-<id>"
for_wire(row) ==
    IF row["symbol"] = None
    THEN SetField(row, "symbol", Some(<<"MKT", row["market_id"]>>))
    ELSE row

\* math.isclose on integers: |l - r| <= max(rel_tol * max(|l|, |r|), abs_tol)
isclose(l, r) ==
    Abs(l - r) <= Max2(Max2(Abs(l), Abs(r)) \div TolInverse, 1 \div TolInverse)

\* (a variant for which no two values are equal)
never_equal(left, right) == FALSE

_almost_equal(left, right) ==
    IF left = None \/ right = None
    THEN left = None /\ right = None
    ELSE isclose(Val(left), Val(right))

\* The merge helpers work on tc = [t |-> target dict, c |-> changed set].
_assign_optional(tc, field, value) ==
    LET current == tc.t[field] IN
    IF value = None
    THEN IF current # None
         THEN [t |-> SetField(tc.t, field, None), c |-> tc.c \cup {field}]
         ELSE tc
    ELSE IF current = None \/ ~_almost_equal(current, value)
         THEN [t |-> SetField(tc.t, field, value), c |-> tc.c \cup {field}]
         ELSE tc

\* (a variant without the test for None)
update_always(tc, field, value) == _assign_optional(tc, field, value)

_update_if_not_none(tc, field, value) ==
    IF value = None THEN tc ELSE _assign_optional(tc, field, value)

\* (a variant with the operands of the difference exchanged)
calc_basis_swapped(target) ==
    IF target["mark_price"] = None \/ target["index_price"] = None
    THEN None
    ELSE Some(Val(target["index_price"]) - Val(target["mark_price"]))

_calc_basis(target) ==
    IF target["mark_price"] = None \/ target["index_price"] = None
    THEN None
    ELSE Some(Val(target["mark_price"]) - Val(target["index_price"]))

_calc_markout(target) ==
    IF target["mid_price"] = None \/ target["last_price"] = None
    THEN None
    ELSE Some(Val(target["mid_price"]) - Val(target["last_price"]))

(* dto.py: MarketStatsBody *)

\* (a variant that prefers the fallback)
fallback_funding_rate(stats) ==
    IF stats.funding_rate # None
    THEN stats.funding_rate
    ELSE stats.current_funding_rate

effective_funding_rate(stats) ==
    IF stats.current_funding_rate # None
    THEN stats.current_funding_rate
    ELSE stats.funding_rate

effective_daily_volume(stats) ==
    IF stats.daily_quote_token_volume # None
    THEN stats.daily_quote_token_volume
    ELSE stats.daily_base_token_volume

_apply_stats(target, stats) ==
    LET s0 == [t |-> target, c |-> {}]
        s1 == _update_if_not_none(s0, "last_price", stats.last_trade_price)
        s2 == _update_if_not_none(s1, "mark_price", stats.mark_price)
        s3 == _update_if_not_none(s2, "index_price", stats.index_price)
        s4 == _update_if_not_none(s3, "open_interest", stats.open_interest)
        s5 == _update_if_not_none(s4, "funding_rate", effective_funding_rate(stats))
        s6 == _update_if_not_none(s5, "daily_volume", effective_daily_volume(stats))
        s7 == _assign_optional(s6, "basis", _calc_basis(s6.t))
    IN  _assign_optional(s7, "markout", _calc_markout(s7.t))

\* _best: min / max by price; Python's min and max return the first of equals
_best(side, reverse) ==
    IF side = <<>>
    THEN None
    ELSE LET better(a, b) == IF reverse THEN a > b ELSE a < b
             i == CHOOSE i \in 1..Len(side) :
                    /\ \A j \in 1..Len(side) : ~better(side[j].price, side[i].price)
                    /\ \A j \in 1..(i - 1) : side[j].price # side[i].price
         IN  Some(side[i])

\* _set(field_price, field_size, value)
_set(tc, field_price, field_size, value) ==
    IF value = None
    THEN _assign_optional(_assign_optional(tc, field_price, None), field_size, None)
    ELSE _assign_optional(_assign_optional(tc, field_price, Some(Val(value).price)),
                          field_size, Some(Val(value).size))

_apply_order_book(target, asks, bids) ==
    LET best_ask == _best(asks, FALSE)
        best_bid == _best(bids, TRUE)
        s0 == [t |-> target, c |-> {}]
        s1 == _set(s0, "best_ask_price", "best_ask_size", best_ask)
        s2 == _set(s1, "best_bid_price", "best_bid_size", best_bid)
        both == best_ask # None /\ best_bid # None
        mid_price ==
            IF both
            THEN Some((Val(best_ask).price + Val(best_bid).price) \div 2)
            ELSE None
        spread_bps ==
            IF both /\ Val(mid_price) # 0
            THEN Some(((Val(best_ask).price - Val(best_bid).price) * 10000)
                        \div Val(mid_price))
            ELSE None
        s3 == _assign_optional(s2, "mid_price", mid_price)
        s4 == _assign_optional(s3, "spread", spread_bps)
    IN  _assign_optional(s4, "markout", _calc_markout(s4.t))

(* Channel names.  A channel is the sequence of its tokens: a name, a      *)
(* separator, then the characters that follow; f"order_book/{mid}" is      *)
(* <<"order_book", "/">> followed by the decimal digits of mid.            *)

Digits == <<"0", "1", "2", "3", "4", "5", "6", "7", "8", "9">>

RECURSIVE str_int(_)
str_int(n) == IF n < 10 THEN <<Digits[n + 1]>> ELSE Append(str_int(n \div 10), Digits[(n % 10) + 1])

IsDigit(c) == \E d \in 1..10 : Digits[d] = c
DigitValue(c) == (CHOOSE d \in 1..10 : Digits[d] = c) - 1

RECURSIVE int_str(_)
int_str(ds) == IF ds = <<>> THEN 0 ELSE 10 * int_str(SubSeq(ds, 1, Len(ds) - 1)) + DigitValue(ds[Len(ds)])

order_book_channel(market_id) == <<"order_book", "/">> \o str_int(market_id)
feed_channel(market_id) == <<"order_book", ":">> \o str_int(market_id)
STATS_ALL_CHANNEL == <<"market_stats", "/", "all">>

\* _CHANNEL_ID_RE = (\d+)$ : the longest run of digits that ends the channel
_extract_market_id(channel) ==
    LET n == Len(channel)
        starts == {i \in 1..n : \A j \in i..n : IsDigit(channel[j])}
    IN  IF starts = {}
        THEN None
        ELSE LET first == CHOOSE i \in starts : \A k \in starts : i <= k
             IN  Some(int_str(SubSeq(channel, first, n)))

----------------------------------------------------------------------------
(* bus.py: UpdateBus *)

CLOSED == [type |-> "closed"]
NoMessage == [type |-> "none"]

\* (a variant that drops the newest of the queued messages, not the oldest)
put_drop_last(queue, message) ==
    IF Len(queue) < QUEUE_SIZE
    THEN Append(queue, message)
    ELSE Append(SubSeq(queue, 1, Len(queue) - 1), message)

\* (a variant that puts the new message in front of the queued ones)
put_front(queue, message) ==
    IF Len(queue) < QUEUE_SIZE
    THEN <<message>> \o queue
    ELSE <<message>> \o Tail(queue)

\* (a variant that keeps the queued messages and drops the new one)
put_unless_full(queue, message) ==
    IF Len(queue) < QUEUE_SIZE THEN Append(queue, message) ELSE queue

\* publish, for one queue: put_nowait; when full, get_nowait then put_nowait
put_newest(queue, message) ==
    IF Len(queue) < QUEUE_SIZE
    THEN Append(queue, message)
    ELSE Append(Tail(queue), message)

\* UpdateBus.publish: every queue registered when the call is made
publish(qs, subs, message) ==
    [s \in Subs |-> IF s \in subs THEN put_newest(qs[s], message) ELSE qs[s]]

RECURSIVE publish_all(_, _, _)
publish_all(qs, subs, messages) ==
    IF messages = <<>>
    THEN qs
    ELSE publish_all(publish(qs, subs, Head(messages)), subs, Tail(messages))

----------------------------------------------------------------------------
(* store.py: _schedule_publish, _delayed_emit, _emit                       *)
(* They work on st = [pending, last_publish, flush_tasks, out]: the three  *)
(* dicts, and the updates handed to bus.publish by this call.              *)

NoPending == [none |-> TRUE]

StoreState ==
    [pending |-> pending, last_publish |-> last_publish,
     flush_tasks |-> flush_tasks, out |-> <<>>]

\* update = {key: payload[key] for key in fields if key in payload}
sparse_update(row, fields) ==
    LET payload == for_wire(row)
    IN  [key \in fields \cap DOMAIN payload |-> payload[key]]

_emit(st, market_id, t) ==
    LET data == st.pending[market_id] IN
    IF data = NoPending
    THEN st
    ELSE [st EXCEPT !.pending[market_id] = NoPending,
                    !.last_publish[market_id] = t,
                    !.out = Append(@, sparse_update(data.row, data.fields))]

\* (a variant that replaces the pending fields instead of adding to them)
merge_fields_overwrite(fields, data) == fields \cup {"market_id"}

\* fields = set(fields) | {"market_id"} | the fields already pending
merge_fields(fields, data) ==
    LET with_id == fields \cup {"market_id"}
    IN  IF data # NoPending THEN with_id \cup data.fields ELSE with_id

\* now - last >= self._debounce
emit_is_due(t, last) == t - last >= Debounce

\* (a variant with the test inverted)
has_flush_task_inverted(tasks, market_id) == tasks[market_id] = None

\* market_id in self._flush_tasks
has_flush_task(tasks, market_id) == tasks[market_id] # None

\* (a variant that keeps the row staged first)
staged_row_first(row, data) == IF data # NoPending THEN data.row ELSE row

\* self._pending[market_id] = (row, fields): the row of this call
staged_row(row, data) == row

_schedule_publish(st, row, fields, t) ==
    IF fields = {}
    THEN st
    ELSE LET market_id == row["market_id"]
             merged == merge_fields(fields, st.pending[market_id])
             st1 == [st EXCEPT !.pending[market_id] =
                                   [row |-> staged_row(row, st.pending[market_id]),
                                    fields |-> merged]]
             last == st.last_publish[market_id]
             delay == Max2(Debounce - (t - last), 0)
         IN  IF emit_is_due(t, last)
             THEN _emit(st1, market_id, t)
             ELSE IF has_flush_task(st1.flush_tasks, market_id)
                  THEN st1
                  ELSE [st1 EXCEPT !.flush_tasks[market_id] = Some(t + delay)]

\* What an observer of the store records of one call: the fields the merge
\* reported changed, and the update handed to the bus, if any.
NoEmission == [none |-> TRUE]

Observe(o, market_id, changed, st, new_rows, t) ==
    LET since == o.changed_since[market_id] \cup changed
        merges == IF changed = {} THEN o.merges_since[market_id]
                  ELSE IF o.merges_since[market_id] = 0 THEN 1 ELSE 2
        before == o.emitted[market_id]
        emission ==
            [update |-> st.out[Len(st.out)],
             at |-> t,
             prev_at |-> IF before = NoEmission THEN -1 ELSE before.at,
             reported |-> since,
             merges |-> merges,
             row_at |-> new_rows[market_id]]
    IN  IF st.out = <<>>
        THEN [o EXCEPT !.changed_since = [o.changed_since EXCEPT ![market_id] = since],
                       !.merges_since = [o.merges_since EXCEPT ![market_id] = merges]]
        ELSE [o EXCEPT !.changed_since = [o.changed_since EXCEPT ![market_id] = {}],
                       !.merges_since = [o.merges_since EXCEPT ![market_id] = 0],
                       !.emitted = [o.emitted EXCEPT ![market_id] = emission]]

\* The tail of apply_market_stats and apply_order_book, from the merge result
\* r = [t, c] on: return None when nothing changed, else stamp, store, publish.
\* They are computed on S, the store with the queues it publishes to, so
\* that a handler that makes several calls in one run can chain them.
StoreRecord ==
    [rows |-> rows, pending |-> pending, last_publish |-> last_publish,
     flush_tasks |-> flush_tasks, queues |-> queues, store_obs |-> store_obs]

\* (a variant without the seed of a new row)
changed_unseeded(row, c) == c

\* if row is None: changed_fields.update(existing.keys())
changed_seeded(row, c) == IF row = NoRow THEN c \cup MarketRowFields ELSE c

store_merged(S, market_id, r, t) ==
    LET changed_fields == changed_seeded(S.rows[market_id], r.c)
    IN  IF changed_fields = {}
        THEN S
        ELSE LET new_row == SetField(r.t, "updated_ms", _now_ms(t))
                 changed == changed_fields \cup {"updated_ms"}
                 new_rows == [S.rows EXCEPT ![market_id] = new_row]
                 st == _schedule_publish(
                         [pending |-> S.pending, last_publish |-> S.last_publish,
                          flush_tasks |-> S.flush_tasks, out |-> <<>>],
                         new_row, changed, t)
             IN  [rows |-> new_rows,
                  pending |-> st.pending,
                  last_publish |-> st.last_publish,
                  flush_tasks |-> st.flush_tasks,
                  queues |-> publish_all(S.queues, subscribers, st.out),
                  store_obs |-> Observe(S.store_obs, market_id, changed, st, new_rows, t)]

\* existing = self._rows.get(market_id); a fresh row when there is none
existing_row(S, market_id, t) ==
    IF S.rows[market_id] = NoRow THEN _fresh_row(market_id, t) ELSE S.rows[market_id]

\* apply_market_stats as a function of the store
stats_merged(S, stats, t) ==
    store_merged(S, stats.market_id,
           _apply_stats(existing_row(S, stats.market_id, t), stats), t)

StoreMerged(market_id, r) ==
    LET S == store_merged(StoreRecord, market_id, r, now)
    IN  /\ rows' = S.rows
        /\ pending' = S.pending
        /\ last_publish' = S.last_publish
        /\ flush_tasks' = S.flush_tasks
        /\ queues' = S.queues
        /\ store_obs' = S.store_obs
        /\ now' = now

Existing(market_id) == existing_row(StoreRecord, market_id, now)

\* what apply_market_stats / apply_order_book return for the merge result r:
\* None when no field changed, else the new row
merge_returns(market_id, r) ==
    IF changed_seeded(rows[market_id], r.c) = {}
    THEN None
    ELSE Some(SetField(r.t, "updated_ms", _now_ms(now)))

\* MarketStore.apply_market_stats(msg), the whole call
apply_market_stats(stats) ==
    StoreMerged(stats.market_id, _apply_stats(Existing(stats.market_id), stats))

\* MarketStore.apply_order_book(msg), the whole call
apply_order_book(msg) ==
    LET market_id == _extract_market_id(msg.channel) IN
    IF market_id = None
    THEN UNCHANGED <<storeVars, queues, store_obs>>
    ELSE StoreMerged(Val(market_id),
            _apply_order_book(Existing(Val(market_id)), msg.order_book.asks, msg.order_book.bids))

\* _delayed_emit: the sleep is over; emit, then leave the task map
_delayed_emit(market_id) ==
    /\ flush_tasks[market_id] # None
    /\ now >= Val(flush_tasks[market_id])
    /\ LET st == _emit(StoreState, market_id, now)
       IN  /\ pending' = st.pending
           /\ last_publish' = st.last_publish
           /\ flush_tasks' = [st.flush_tasks EXCEPT ![market_id] = None]
           /\ queues' = publish_all(queues, subscribers, st.out)
           /\ store_obs' = Observe(store_obs, market_id, {}, st, rows, now)
    /\ UNCHANGED <<rows, now>>

\* (a variant of close that leaves the flush tasks running)
store_close_keeps_tasks ==
    /\ store_obs' = [store_obs EXCEPT !.closed = TRUE]
    /\ UNCHANGED <<rows, pending, last_publish, now, queues, flush_tasks>>

\* MarketStore.close: cancel every flush task and clear the map.  A cancelled
\* task's own pop of its key finds the map already cleared.
store_close ==
    /\ flush_tasks' = [m \in Markets |-> None]
    /\ store_obs' = [store_obs EXCEPT !.closed = TRUE]
    /\ UNCHANGED <<rows, pending, last_publish, now, queues>>

\* time passes
Tick ==
    /\ now < MaxTime
    /\ now' = now + 1
    /\ UNCHANGED <<rows, pending, last_publish, flush_tasks, queues, store_obs>>

----------------------------------------------------------------------------
(* Initial state: the objects as constructed, before any frame arrived.    *)
(* time.time() is far more than one debounce interval from the 0.0 that    *)
(* stands for "never published".                                           *)

StoreInit ==
    /\ rows = [m \in Markets |-> NoRow]
    /\ last_publish = [m \in Markets |-> 0]
    /\ pending = [m \in Markets |-> NoPending]
    /\ flush_tasks = [m \in Markets |-> None]
    /\ now = Debounce
    /\ store_obs = [emitted |-> [m \in Markets |-> NoEmission],
                    changed_since |-> [m \in Markets |-> {}],
                    merges_since |-> [m \in Markets |-> 0],
                    closed |-> FALSE]

\* what a downstream subscriber holds of a market before it was told anything
NoView == [key \in {} |-> None]

BusInit ==
    /\ subscribers = {}
    /\ queues = [s \in Subs |-> <<>>]
    /\ sub_state = [s \in Subs |-> "new"]
    /\ bus_obs = [published |-> 0,
                  last_pub |-> [s \in Subs |-> NoMessage],
                  last_deq |-> [s \in Subs |-> NoMessage],
                  dropped |-> [s \in Subs |-> FALSE],
                  joined |-> [s \in Subs |-> 0],
                  at_close |-> [s \in Subs |-> FALSE],
                  view |-> [s \in Subs |-> [m \in Markets |-> NoView]]]

NoConnect == [none |-> TRUE]
NoSleep == [none |-> TRUE]
NoCall == [kind |-> "none"]
NoHandler == [kind |-> "none"]

ClientInit ==
    /\ known_markets = {}
    /\ outbound = <<>>
    /\ phase = "connecting"
    /\ reader = [pc |-> "none", todo |-> <<>>, rest |-> <<>>]
    /\ sender = [pc |-> "none", message |-> NoMessage]
    /\ socket = {}
    /\ backoff = ReconnectBase
    /\ sleep = NoSleep
    /\ client_obs = [connect |-> NoConnect,
                     handled |-> NoHandler,
                     discovered |-> [m \in Markets |-> 0],
                     requeued |-> NoMessage,
                     retries |-> 0]
    /\ call_obs = NoCall
    /\ wire = <<>>

\* FundingAnalytics as constructed: no task, the event clear, no snapshot
NoSnapshot == [none |-> TRUE]

AnalyticsInit ==
    /\ analytics = [task |-> "none", stop_event |-> FALSE, deadline |-> 0,
                    latest |-> NoSnapshot]
    /\ funding_obs = [kind |-> "loop", published |-> 0, last |-> NoSnapshot,
                      at |-> 0, stored |-> 0, cycle |-> "none",
                      saw_empty |-> FALSE]

\* the callers of stop() that can be inside it at the same time
StopCalls == {1, 2}

\* WebSocketManager as constructed: _task is None (0), the event is clear
ManagerInit ==
    manager = [task |-> 0, stop_event |-> FALSE,
               tasks |-> [id \in TaskIds |-> "none"],
               stops |-> [c \in StopCalls |-> 0]]

Init == StoreInit /\ BusInit /\ ClientInit /\ AnalyticsInit /\ ManagerInit

----------------------------------------------------------------------------
(* Inbound frames *)

NullStats(market_id) ==
    [market_id |-> market_id, index_price |-> None, mark_price |-> None,
     open_interest |-> None, last_trade_price |-> None,
     current_funding_rate |-> None, funding_rate |-> None,
     daily_base_token_volume |-> None, daily_quote_token_volume |-> None]

\* stats records: a last price that oscillates, a mark/index pair, all null
StatsInputs(ms) ==
    UNION {{[NullStats(m) EXCEPT !.last_trade_price = Some(2)],
            [NullStats(m) EXCEPT !.last_trade_price = Some(6)],
            [NullStats(m) EXCEPT !.mark_price = Some(6), !.index_price = Some(2)],
            NullStats(m)} : m \in ms}

Level(price, size) == [price |-> price, size |-> size]

\* order books: a two-sided book, and one whose sides are empty
BookInputs(ms) ==
    UNION {{[channel |-> feed_channel(m),
             order_book |-> [asks |-> <<Level(6, 1)>>, bids |-> <<Level(2, 1)>>]],
            [channel |-> feed_channel(m),
             order_book |-> [asks |-> <<>>, bids |-> <<>>]]} : m \in ms}

----------------------------------------------------------------------------
(* The store alone: merges, flush timers, the clock, close *)

NotStore == <<subscribers, sub_state, bus_obs, clientVars, client_obs, call_obs, analyticsVars, managerVars, wire>>

StoreMarkets == {1}

StoreStats == \E stats \in StatsInputs(StoreMarkets) : apply_market_stats(stats) /\ UNCHANGED NotStore
StoreBook == \E msg \in BookInputs(StoreMarkets) : apply_order_book(msg) /\ UNCHANGED NotStore
StoreFlush == \E m \in StoreMarkets : _delayed_emit(m) /\ UNCHANGED NotStore
StoreClose == store_close /\ UNCHANGED NotStore
StoreTick == Tick /\ UNCHANGED NotStore

NextStore == StoreStats \/ StoreBook \/ StoreFlush \/ StoreClose \/ StoreTick

SpecStore == Init /\ [][NextStore]_vars

----------------------------------------------------------------------------
(* Properties of the store *)

Emissions == {m \in Markets : store_obs.emitted[m] # NoEmission}

\* C3: for every market, two consecutive emissions to the bus are at least
\* the debounce interval apart.
C3_EmissionsDebounceApart ==
    \A m \in Emissions :
        LET e == store_obs.emitted[m]
        IN  e.prev_at >= 0 => e.at - e.prev_at >= Debounce

\* C4, as claimed: every emission carries exactly market_id plus the fields
\* reported changed since the previous emission of the market, each with the
\* value it has in the market's stored row at emit time.
C4_CarriesStoredRowValues ==
    \A m \in Emissions :
        LET e == store_obs.emitted[m]
        IN  /\ DOMAIN e.update = {"market_id"} \cup e.reported
            /\ \A k \in DOMAIN e.update : e.update[k] = e.row_at[k]

\* C4, amended: every emission carries exactly market_id plus the fields
\* reported changed since the previous emission of the market, each once, with
\* the value it has in the stored row at emit time, except that a symbol the
\* stored row lacks is carried as MKT-<id>.
C4_CarriesWireRowValues ==
    \A m \in Emissions :
        LET e == store_obs.emitted[m]
        IN  /\ DOMAIN e.update = {"market_id"} \cup e.reported
            /\ \A k \in DOMAIN e.update :
                 IF k = "symbol" /\ e.row_at[k] = None
                 THEN e.update[k] = Some(<<"MKT", m>>)
                 ELSE e.update[k] = e.row_at[k]

\* An emission that coalesced several merges: the last price changed more than
\* once since the previous emission, and another merge changed the basis.
C4_Witness ==
    \E m \in Emissions :
        LET e == store_obs.emitted[m]
        IN  /\ e.merges = 2
            /\ e.prev_at >= 0
            /\ {"last_price", "basis"} \subseteq e.reported
            /\ e.update["last_price"] = e.row_at["last_price"]

\* C5: while the store is not closed, a market with a pending update has a
\* flush task that has not run yet and is due within the debounce interval.
C5_PendingHasFlushTask ==
    ~store_obs.closed =>
        \A m \in Markets :
            pending[m] # NoPending =>
                /\ flush_tasks[m] # None
                /\ Val(flush_tasks[m]) <= last_publish[m] + Debounce
                /\ pending[m].row = rows[m]

\* A merge that arrived while a flush task was already waiting.
C5_Witness ==
    \E m \in Markets :
        /\ ~store_obs.closed
        /\ pending[m] # NoPending
        /\ flush_tasks[m] # None
        /\ store_obs.merges_since[m] = 2

----------------------------------------------------------------------------
(* bus.py: subscribe and close.  An owner is "new" before its generator    *)
(* first runs, "active" while it waits in queue.get(), "done" after its    *)
(* finally block ran.  ("snapshot" is the dashboard handler on its way to  *)
(* the generator, below.)                                                  *)

\* subscribe(), first __anext__: a fresh queue is registered
subscribe_start(s) ==
    /\ subscribers' = subscribers \cup {s}
    /\ queues' = [queues EXCEPT ![s] = <<>>]
    /\ sub_state' = [sub_state EXCEPT ![s] = "active"]

\* (a variant whose finally block leaves the queue registered)
finally_keeps_queue(s) ==
    /\ subscribers' = subscribers
    /\ sub_state' = [sub_state EXCEPT ![s] = "done"]

\* aclose() or cancellation: the finally block discards the queue
subscribe_finally(s) ==
    /\ subscribers' = subscribers \ {s}
    /\ sub_state' = [sub_state EXCEPT ![s] = "done"]

\* UpdateBus.close
bus_close ==
    /\ subscribers' = {}
    /\ queues' = [s \in Subs |->
                    IF s \in subscribers /\ Len(queues[s]) < QUEUE_SIZE
                    THEN Append(queues[s], CLOSED)
                    ELSE queues[s]]

\* a message with the given number, as the publishers of the bus build them
Message(n) == [type |-> "msg", n |-> n]

IsData(message) == message # CLOSED

(* The bus alone: publishers, subscribers that iterate as the dashboard    *)
(* handlers do (stop at the close sentinel), close.                        *)

NotBus == <<storeVars, store_obs, clientVars, client_obs, call_obs, analyticsVars, managerVars, wire>>

\* the observations of a subscription end with it
Forgotten(o, s) ==
    [o EXCEPT !.last_pub[s] = NoMessage, !.last_deq[s] = NoMessage,
              !.dropped[s] = FALSE, !.joined[s] = 0, !.at_close[s] = FALSE]

BusPublish ==
    /\ bus_obs.published < MaxPublished
    /\ LET message == Message(bus_obs.published + 1)
       IN  /\ queues' = publish(queues, subscribers, message)
           /\ bus_obs' = [bus_obs EXCEPT
                !.published = @ + 1,
                !.last_pub = [s \in Subs |-> IF s \in subscribers THEN message ELSE @[s]],
                !.dropped = [s \in Subs |->
                    @[s] \/ (s \in subscribers /\ Len(queues[s]) = QUEUE_SIZE)]]
    /\ UNCHANGED <<subscribers, sub_state, NotBus>>

BusSubscribe ==
    \E s \in Subs :
        /\ sub_state[s] = "new"
        /\ subscribe_start(s)
        /\ bus_obs' = [bus_obs EXCEPT !.joined[s] = bus_obs.published]
        /\ UNCHANGED NotBus

\* queue.get() returns; the consumer takes the item, or stops at the sentinel
BusNext ==
    \E s \in Subs :
        /\ sub_state[s] = "active"
        /\ queues[s] # <<>>
        /\ queues' = [queues EXCEPT ![s] = Tail(@)]
        /\ IF IsData(Head(queues[s]))
           THEN /\ bus_obs' = [bus_obs EXCEPT !.last_deq[s] = Head(queues[s])]
                /\ UNCHANGED <<subscribers, sub_state>>
           ELSE /\ subscribe_finally(s)
                /\ bus_obs' = Forgotten(bus_obs, s)
        /\ UNCHANGED NotBus

\* the consumer goes away (its websocket disconnected)
BusUnsubscribe ==
    \E s \in Subs :
        /\ sub_state[s] = "active"
        /\ subscribe_finally(s)
        /\ queues' = [queues EXCEPT ![s] = <<>>]
        /\ bus_obs' = Forgotten(bus_obs, s)
        /\ UNCHANGED NotBus

BusClose ==
    /\ bus_close
    /\ bus_obs' = [bus_obs EXCEPT
          !.at_close = [s \in Subs |-> @[s] \/ s \in subscribers]]
    /\ UNCHANGED <<sub_state, NotBus>>

NextBus == BusPublish \/ BusSubscribe \/ BusNext \/ BusUnsubscribe \/ BusClose

SpecBus == Init /\ [][NextBus]_vars

\* the data messages still queued for s
Queued(s) == {i \in 1..Len(queues[s]) : IsData(queues[s][i])}

\* C1: a subscriber that has drained its queue has, as the last message it
\* dequeued, the last message published while it was registered.
C1_NewestWins ==
    \A s \in Subs :
        (sub_state[s] = "active" /\ bus_obs.last_pub[s] # NoMessage /\ Queued(s) = {})
            => bus_obs.last_deq[s] = bus_obs.last_pub[s]

\* A subscriber whose queue overflowed and who then drained it.
C1_Witness ==
    \E s \in Subs :
        /\ sub_state[s] = "active"
        /\ bus_obs.dropped[s]
        /\ queues[s] = <<>>
        /\ bus_obs.last_deq[s] = bus_obs.last_pub[s]
        /\ bus_obs.last_pub[s] # NoMessage

----------------------------------------------------------------------------
(* store.py: snapshot, and dashboard.py: websocket_updates                 *)

\* (a variant that orders by market id only)
sort_key_by_id(row) == <<0, 0, row["market_id"]>>

_sort_key(row) ==
    IF row["open_interest"] = None
    THEN <<1, 0, row["market_id"]>>
    ELSE <<0, -Val(row["open_interest"]), row["market_id"]>>

\* Python's order on tuples of equal length
tuple_less(a, b) ==
    \E i \in 1..Len(a) : a[i] < b[i] /\ \A j \in 1..(i - 1) : a[j] = b[j]

RECURSIVE sorted_rows(_)
sorted_rows(S) ==
    IF S = {}
    THEN <<>>
    ELSE LET first == CHOOSE r \in S : \A q \in S : ~tuple_less(_sort_key(q), _sort_key(r))
         IN  <<first>> \o sorted_rows(S \ {first})

\* MarketStore.snapshot: [row.for_wire() for row in sorted(rows, key=_sort_key)]
snapshot ==
    LET ordered == sorted_rows({rows[m] : m \in {m \in Markets : rows[m] # NoRow}})
    IN  [i \in 1..Len(ordered) |-> for_wire(ordered[i])]

\* The subscriber's side: it keeps, per market, the fields it was told.
apply_snapshot(snapshot_rows) ==
    [m \in Markets |->
        IF \E i \in 1..Len(snapshot_rows) : snapshot_rows[i]["market_id"] = m
        THEN snapshot_rows[CHOOSE i \in 1..Len(snapshot_rows) : snapshot_rows[i]["market_id"] = m]
        ELSE NoView]

apply_update(view, update) ==
    LET m == update["market_id"]
        merged == [key \in (DOMAIN view[m]) \cup (DOMAIN update) |->
                     IF key \in DOMAIN update THEN update[key] ELSE view[m][key]]
    IN  [view EXCEPT ![m] = merged]

\* websocket_updates up to its first await of send_json: accept, snapshot
ws_snapshot(s) ==
    /\ sub_state[s] = "new"
    /\ sub_state' = [sub_state EXCEPT ![s] = "snapshot"]
    /\ bus_obs' = [bus_obs EXCEPT !.view[s] = apply_snapshot(snapshot)]
    /\ UNCHANGED <<subscribers, queues>>

\* send_json of the snapshot returned; bus.subscribe() and the first
\* __anext__ of the generator register the queue
ws_subscribe(s) ==
    /\ sub_state[s] = "snapshot"
    /\ subscribe_start(s)
    /\ UNCHANGED bus_obs

\* one turn of `async for update in updates`: queue.get() returns, the
\* handler breaks at the close sentinel, else sends the update
ws_update(s) ==
    /\ sub_state[s] = "active"
    /\ queues[s] # <<>>
    /\ queues' = [queues EXCEPT ![s] = Tail(@)]
    /\ IF IsData(Head(queues[s]))
       THEN /\ bus_obs' = [bus_obs EXCEPT !.view[s] = apply_update(@, Head(queues[s]))]
            /\ UNCHANGED <<subscribers, sub_state>>
       ELSE /\ subscribe_finally(s)
            /\ UNCHANGED bus_obs

\* WebSocketDisconnect: the finally block closes the generator
ws_disconnect(s) ==
    /\ sub_state[s] = "active"
    /\ subscribe_finally(s)
    /\ UNCHANGED <<queues, bus_obs>>

(* The store feeding dashboard connections through the bus *)

DashMarkets == {1}
DashSubs == {1}

\* frames of the dashboard runs: a last price that changes, a two-sided book
DashStatsInputs == {stats \in StatsInputs(DashMarkets) : stats.last_trade_price # None}
DashBookInputs == {msg \in BookInputs(DashMarkets) : msg.order_book.asks # <<>>}

DashStats ==
    \E stats \in DashStatsInputs :
        apply_market_stats(stats) /\ UNCHANGED <<subscribers, sub_state, bus_obs, clientVars, client_obs, call_obs, analyticsVars, managerVars, wire>>
DashBook ==
    \E msg \in DashBookInputs :
        apply_order_book(msg) /\ UNCHANGED <<subscribers, sub_state, bus_obs, clientVars, client_obs, call_obs, analyticsVars, managerVars, wire>>
DashFlush ==
    \E m \in DashMarkets :
        _delayed_emit(m) /\ UNCHANGED <<subscribers, sub_state, bus_obs, clientVars, client_obs, call_obs, analyticsVars, managerVars, wire>>
DashTick == Tick /\ UNCHANGED <<subscribers, sub_state, bus_obs, clientVars, client_obs, call_obs, analyticsVars, managerVars, wire>>
DashSnapshot == \E s \in DashSubs : ws_snapshot(s) /\ UNCHANGED <<storeVars, store_obs, clientVars, client_obs, call_obs, analyticsVars, managerVars, wire>>
DashSubscribe == \E s \in DashSubs : ws_subscribe(s) /\ UNCHANGED <<storeVars, store_obs, clientVars, client_obs, call_obs, analyticsVars, managerVars, wire>>
DashUpdate == \E s \in DashSubs : ws_update(s) /\ UNCHANGED <<storeVars, store_obs, clientVars, client_obs, call_obs, analyticsVars, managerVars, wire>>
DashDisconnect == \E s \in DashSubs : ws_disconnect(s) /\ UNCHANGED <<storeVars, store_obs, clientVars, client_obs, call_obs, analyticsVars, managerVars, wire>>

NextDash ==
    \/ DashStats \/ DashBook \/ DashFlush \/ DashTick
    \/ DashSnapshot \/ DashSubscribe \/ DashUpdate \/ DashDisconnect

SpecDash == Init /\ [][NextDash]_vars

\* C2: a subscriber that got the snapshot and applied every update it
\* dequeued holds, for every market, the values of the store's latest row
\* once nothing is in flight any more: nothing pending in the store, nothing
\* queued for the subscriber.
C2_SubscriberConverges ==
    \A s \in Subs :
        (/\ sub_state[s] = "active"
         /\ queues[s] = <<>>
         /\ \A m \in Markets : pending[m] = NoPending)
        => \A m \in Markets :
              rows[m] # NoRow => bus_obs.view[s][m] = for_wire(rows[m])

----------------------------------------------------------------------------
(* ws_manager.py: WebSocketManager; ws_client.py: run_ws_loop,             *)
(* _handle_connection, _sender.                                            *)
(*                                                                         *)
(* phase   "connecting": run_ws_loop waits in websockets.connect           *)
(*         "session":    it waits in _handle_connection                    *)
(*         "sleeping":   it waits in the backoff sleep                     *)
(* reader  "reading":    _handle_connection waits for a frame              *)
(*         "put":        it waits in outbound_queue.put, the queue is full *)
(* sender  "idle":       the send task waits in outbound_queue.get         *)
(*         "sending":    it waits in ws.send                               *)
(*         "failed":     it ended after a failed send                      *)

subscribe(channel) == [type |-> "subscribe", channel |-> channel]

SUBSCRIBE_ALL == subscribe(STATS_ALL_CHANNEL)

\* (a variant that sorts the other way round)
RECURSIVE sorted_reversed(_)
sorted_reversed(S) ==
    IF S = {}
    THEN <<>>
    ELSE LET greatest == CHOOSE x \in S : \A y \in S : x >= y
         IN  <<greatest>> \o sorted_reversed(S \ {greatest})

\* sorted(self._known_markets)
RECURSIVE sorted(_)
sorted(S) ==
    IF S = {}
    THEN <<>>
    ELSE LET least == CHOOSE x \in S : \A y \in S : x <= y
         IN  <<least>> \o sorted(S \ {least})

\* WebSocketManager._on_connect: the messages it returns, and the set of
\* known markets as it leaves it
_on_connect(known) ==
    LET ids == sorted(known)
    IN  [messages |-> <<subscribe(STATS_ALL_CHANNEL)>>
                        \o [i \in 1..Len(ids) |-> subscribe(order_book_channel(ids[i]))],
         known_markets |-> known]

\* (a variant that takes every market for a new one)
always_new_market(known, market_id) == TRUE

\* new_market = market_id not in self._known_markets
new_market(known, market_id) == market_id \notin known

\* `await queue.put(message)` for each message in turn: the puts that find
\* room are done, the first that finds the queue full waits
RECURSIVE put_while_room(_, _)
put_while_room(queue, todo) ==
    IF todo = <<>> \/ Len(queue) >= OutboundMax
    THEN [queue |-> queue, todo |-> todo]
    ELSE put_while_room(Append(queue, Head(todo)), Tail(todo))

\* the reader after a run of puts: back to the frames, or waiting for room
\* (rest: the entries of a batch that the handler has still to go through)
reader_after(todo) ==
    [pc |-> IF todo = <<>> THEN "reading" ELSE "put", todo |-> todo, rest |-> <<>>]

\* delay = min(backoff, settings.reconnect_max_delay)
sleep_delay(b) == Min2(b, ReconnectMax)

\* random.uniform(0.0, min(1.0, delay / 2)), on the grid of the time unit
jitter_range(delay) == 0..Min2(JitterCap, delay \div 2)

\* (a variant that doubles without the cap)
next_backoff_uncapped(b) == b * 2

\* backoff = min(backoff * 2, settings.reconnect_max_delay)
next_backoff(b) == Min2(b * 2, ReconnectMax)

\* run_ws_loop after a session or a failed connect: the delay and the jitter
\* are drawn and the sleep begins
begin_sleep ==
    /\ phase' = "sleeping"
    /\ \E jitter \in jitter_range(sleep_delay(backoff)) :
          sleep' = [delay |-> sleep_delay(backoff), jitter |-> jitter]
    /\ backoff' = backoff

\* websockets.connect succeeded; _handle_connection creates the send task,
\* calls on_connect and puts the initial messages
Connect ==
    /\ phase = "connecting"
    /\ LET initial == _on_connect(known_markets)
           r == put_while_room(outbound, initial.messages)
       IN  /\ known_markets' = initial.known_markets
           /\ outbound' = r.queue
           /\ reader' = reader_after(r.todo)
           /\ client_obs' = [client_obs EXCEPT
                !.connect = [initial |-> initial.messages,
                             known_before |-> known_markets,
                             known_after |-> initial.known_markets],
                !.retries = 0]
    /\ phase' = "session"
    /\ backoff' = ReconnectBase
    /\ sleep' = sleep
    /\ sender' = [pc |-> "idle", message |-> NoMessage]
    /\ socket' = {}

\* websockets.connect raised OSError or WebSocketException
ConnectFail ==
    /\ phase = "connecting"
    /\ client_obs.retries < MaxRetries
    /\ begin_sleep
    /\ UNCHANGED <<known_markets, outbound, reader, sender, socket, client_obs>>

\* the backoff sleep is over: backoff doubles, the loop connects again
BackoffDone ==
    /\ phase = "sleeping"
    /\ phase' = "connecting"
    /\ backoff' = next_backoff(backoff)
    /\ sleep' = NoSleep
    /\ client_obs' = [client_obs EXCEPT !.retries = @ + 1]
    /\ UNCHANGED <<known_markets, outbound, reader, sender, socket>>

\* the queue has room again: the waiting put and those after it go on
ReaderResumePut ==
    /\ phase = "session"
    /\ reader.pc = "put"
    /\ reader.rest = <<>>
    /\ Len(outbound) < OutboundMax
    /\ LET r == put_while_room(outbound, reader.todo)
       IN  /\ outbound' = r.queue
           /\ reader' = reader_after(r.todo)
    /\ UNCHANGED <<known_markets, phase, sender, socket, backoff, sleep, client_obs>>

\* What a handler added to the queue (the puts done and the put waiting):
\* the messages after those that were queued before, or "other" if those
\* did not stay as they were.
Added(before, after) ==
    IF Len(after) >= Len(before) /\ SubSeq(after, 1, Len(before)) = before
    THEN SubSeq(after, Len(before) + 1, Len(after))
    ELSE <<"other">>

\* _on_message with a stats frame: _handle_market_stats
_handle_market_stats(stats) ==
    /\ phase = "session"
    /\ reader.pc = "reading"
    /\ apply_market_stats(stats)
    /\ LET market_id == stats.market_id
           is_new == new_market(known_markets, market_id)
           enqueue == IF is_new
                      THEN <<subscribe(order_book_channel(market_id))>>
                      ELSE <<>>
           r == put_while_room(outbound, enqueue)
       IN  /\ known_markets' = IF is_new THEN known_markets \cup {market_id} ELSE known_markets
           /\ outbound' = r.queue
           /\ reader' = reader_after(r.todo)
           /\ client_obs' = [client_obs EXCEPT
                !.handled = [kind |-> "stats", market_id |-> market_id,
                             known_before |-> known_markets,
                             known_after |-> known_markets',
                             added |-> Added(outbound, r.queue \o r.todo)],
                !.discovered = [client_obs.discovered EXCEPT ![market_id] =
                                  IF @ + Len(enqueue) > 2 THEN 2 ELSE @ + Len(enqueue)]]
    /\ UNCHANGED <<phase, sender, socket, backoff, sleep>>

\* _on_message with an order-book frame: _handle_order_book
_handle_order_book(msg) ==
    /\ phase = "session"
    /\ reader.pc = "reading"
    /\ apply_order_book(msg)
    /\ UNCHANGED <<known_markets, outbound, phase, reader, sender, socket, backoff, sleep>>
    /\ client_obs' = [client_obs EXCEPT
          !.handled = [kind |-> "book", market_id |-> Val(_extract_market_id(msg.channel)),
                       known_before |-> known_markets,
                       known_after |-> known_markets',
                       added |-> Added(outbound, outbound' \o reader'.todo)]]

\* _sender: outbound_queue.get() returns a message
SenderGet ==
    /\ phase = "session"
    /\ sender.pc = "idle"
    /\ outbound # <<>>
    /\ sender' = [pc |-> "sending", message |-> Head(outbound)]
    /\ outbound' = Tail(outbound)
    /\ client_obs' = [client_obs EXCEPT !.requeued = NoMessage]
    /\ UNCHANGED <<known_markets, phase, reader, socket, backoff, sleep>>

\* _sender: ws.send returned
SendOk ==
    /\ phase = "session"
    /\ sender.pc = "sending"
    /\ socket' = socket \cup {sender.message.channel}
    /\ sender' = [pc |-> "idle", message |-> NoMessage]
    /\ UNCHANGED <<known_markets, outbound, phase, reader, backoff, sleep, client_obs>>

\* _sender: ws.send raised; put_nowait under suppress(QueueFull), then the
\* exception ends the task
SendFail ==
    /\ phase = "session"
    /\ sender.pc = "sending"
    /\ LET room == Len(outbound) < OutboundMax
       IN  /\ outbound' = IF room THEN Append(outbound, sender.message) ELSE outbound
           /\ client_obs' = [client_obs EXCEPT
                !.requeued = IF room THEN sender.message ELSE NoMessage]
    /\ sender' = [pc |-> "failed", message |-> NoMessage]
    /\ UNCHANGED <<known_markets, phase, reader, socket, backoff, sleep>>

\* `async for raw in ws` ends or raises: the finally block cancels the send
\* task (a message it was sending is gone), run_ws_loop goes to its sleep
Disconnect ==
    /\ phase = "session"
    /\ reader.pc = "reading"
    /\ begin_sleep
    /\ reader' = [pc |-> "none", todo |-> <<>>, rest |-> <<>>]
    /\ sender' = [pc |-> "none", message |-> NoMessage]
    /\ UNCHANGED <<known_markets, outbound, socket, client_obs>>

(* The client loop and the manager, fed by the upstream server *)

ClientStatsInputs == {[NullStats(m) EXCEPT !.last_trade_price = Some(2)] : m \in Markets}
ClientBookInputs == {msg \in BookInputs({1}) : msg.order_book.asks # <<>>}

NotClient == <<subscribers, sub_state, bus_obs, call_obs, analyticsVars, managerVars, wire>>
NotManager == <<storeVars, store_obs, busVars, bus_obs, call_obs, analyticsVars, managerVars, wire>>

ClientConnect == Connect /\ UNCHANGED NotManager
ClientConnectFail == ConnectFail /\ UNCHANGED NotManager
ClientBackoffDone == BackoffDone /\ UNCHANGED NotManager
ClientResumePut == ReaderResumePut /\ UNCHANGED NotManager
ClientStats == \E stats \in ClientStatsInputs : _handle_market_stats(stats) /\ UNCHANGED NotClient
ClientBook == \E msg \in ClientBookInputs : _handle_order_book(msg) /\ UNCHANGED NotClient
ClientSenderGet == SenderGet /\ UNCHANGED NotManager
ClientSendOk == SendOk /\ UNCHANGED NotManager
ClientSendFail == SendFail /\ UNCHANGED NotManager
ClientDisconnect == Disconnect /\ UNCHANGED NotManager

NextClient ==
    \/ ClientConnect \/ ClientConnectFail \/ ClientBackoffDone \/ ClientResumePut
    \/ ClientStats \/ ClientBook
    \/ ClientSenderGet \/ ClientSendOk \/ ClientSendFail \/ ClientDisconnect

SpecClient == Init /\ [][NextClient]_vars

\* The program's own steps are taken when they can be; the server and the
\* network (frames, connects, disconnects) are under no obligation.
FairSpecClient ==
    /\ Init
    /\ [][NextClient]_vars
    /\ WF_vars(ClientSenderGet)
    /\ WF_vars(ClientSendOk \/ ClientSendFail)
    /\ WF_vars(ClientResumePut)
    /\ WF_vars(ClientBackoffDone)

----------------------------------------------------------------------------
(* Properties of the client loop and the manager *)

\* the subscribe messages of a session that must reach its socket
Required == {STATS_ALL_CHANNEL} \cup {order_book_channel(m) : m \in known_markets}

\* C6: in a session that stays connected, the subscribe for market_stats/all
\* and the subscribe for order_book/<id> of every known market are eventually
\* written to the session's socket, whatever reconnects and send failures
\* came before.
C6_SubscribesEventuallyWritten ==
    \A channel \in {STATS_ALL_CHANNEL} \cup {order_book_channel(m) : m \in Markets} :
        (phase = "session" /\ channel \in Required)
            ~> (phase # "session" \/ channel \in socket)

\* C7: a stats record for a market that is not known adds it to the known
\* markets and enqueues exactly one subscribe for its order book; a stats
\* record for a known market enqueues nothing; an order-book message enqueues
\* nothing and leaves the known markets alone.  So discovery enqueues each
\* market exactly once.
C7_DiscoveryEnqueuesOnce ==
    /\ \A m \in Markets :
          client_obs.discovered[m] = IF m \in known_markets THEN 1 ELSE 0
    /\ LET h == client_obs.handled
       IN  /\ (h.kind = "stats" /\ h.market_id \notin h.known_before) =>
                /\ h.known_after = h.known_before \cup {h.market_id}
                /\ h.added = <<[type |-> "subscribe",
                                channel |-> <<"order_book", "/">> \o str_int(h.market_id)]>>
           /\ (h.kind = "stats" /\ h.market_id \in h.known_before) =>
                /\ h.known_after = h.known_before
                /\ h.added = <<>>
           /\ h.kind = "book" =>
                /\ h.known_after = h.known_before
                /\ h.added = <<>>

\* Every market was discovered, and a stats record for a known market was
\* handled after that.
C7_Witness ==
    /\ known_markets = Markets
    /\ client_obs.handled.kind = "stats"
    /\ client_obs.handled.market_id \in client_obs.handled.known_before
    /\ \A m \in Markets : client_obs.discovered[m] = 1

\* C8: the on-connect hook returns the subscribe for market_stats/all followed
\* by exactly one subscribe for order_book/<id> per known market, in ascending
\* order of id, and nothing else; it leaves the known markets as they were.
C8_OnConnectList ==
    LET c == client_obs.connect IN
    c # NoConnect =>
        /\ c.initial[1] = [type |-> "subscribe", channel |-> <<"market_stats", "/", "all">>]
        /\ Len(c.initial) = 1 + Cardinality(c.known_before)
        /\ \A m \in c.known_before :
              \E i \in 2..Len(c.initial) :
                  c.initial[i] = [type |-> "subscribe",
                                  channel |-> <<"order_book", "/">> \o str_int(m)]
        /\ \A i, j \in 2..Len(c.initial) :
              i < j => Val(_extract_market_id(c.initial[i].channel))
                         < Val(_extract_market_id(c.initial[j].channel))
        /\ c.known_after = c.known_before

\* A session that began when every market was known.
C8_Witness ==
    /\ client_obs.connect # NoConnect
    /\ client_obs.connect.known_before = Markets
    /\ Len(client_obs.connect.initial) = NumMarkets + 1

\* C9: after a failed write the session is torn down, whether or not the
\* reading side fails.
C9_SendFailureEndsSession ==
    (phase = "session" /\ sender.pc = "failed") ~> (phase # "session")

\* C10: a message whose write failed, put back while the queue had room, is
\* at the head of the queue: the first the next sender takes.
C10_RequeuedAtHead ==
    client_obs.requeued # NoMessage =>
        /\ outbound # <<>>
        /\ Head(outbound) = client_obs.requeued

----------------------------------------------------------------------------
(* Frames as they come off the socket, before they are parsed *)

\* the "channel" member of a frame: a string, a number, or not there
StrChannel(value) == [kind |-> "str", value |-> value]
NumberChannel == [kind |-> "number"]
NoChannel == [kind |-> "absent"]

\* a member of a frame or of a batch: a stats record whose market_id is an
\* integer, one whose market_id is not, an object without market_id (for the
\* "market_stats" member: the batch, with its values in container order),
\* and anything that is not an object
StatsValue(stats) == [kind |-> "stats", stats |-> stats]
BadIdValue == [kind |-> "bad_market_id"]
BatchValue(entries) == [kind |-> "batch", entries |-> entries]
NoIdValue == BatchValue(<<>>)
NotDictValue == [kind |-> "not_dict"]

\* raw text that is not JSON; JSON that is not an object; an object
NotJson == [json |-> "invalid"]
JsonArray == [json |-> "array"]
JsonNumber == [json |-> "number"]
JsonString == [json |-> "string"]
JsonNull == [json |-> "null"]
\* what orjson.loads returns for JSON that is not an object: list, int or
\* float, str, None
NotObjectKinds == {"array", "number", "string", "null"}
Frame(type, channel, market_stats) ==
    [json |-> "object", type |-> type, channel |-> channel, market_stats |-> market_stats]

\* MarketStatsBody.model_validate(value) succeeds
valid_body(value) == value.kind = "stats"

\* `if not isinstance(value, dict) or "market_id" not in value: continue`
\* and the ValidationError caught around MarketStatsBody.model_validate
skipped(value) == ~valid_body(value)

\* MarketStatsMsg(...).  channel: str accepts a string only
valid_channel(channel) == channel.kind = "str"

\* parse_ws_message(payload) returns a message
parses(frame) ==
    /\ frame.type = "update/market_stats"
    /\ valid_channel(frame.channel)
    /\ valid_body(frame.market_stats)

\* the channel of stats frames on the wire
STATS_FEED == <<"market_stats", ":", "all">>

\* `channel or "market_stats:all"`
batch_channel(channel) ==
    IF channel.kind = "absent" \/ (channel.kind = "str" /\ channel.value = <<>>)
    THEN StrChannel(STATS_FEED)
    ELSE channel

\* What becomes of a frame in _handle_connection and _on_message:
\*   "ignored"  orjson.loads raised JSONDecodeError, the loop continues
\*   "raises"   an exception leaves _on_message (payload.get on a value that
\*              is not an object; MarketStatsMsg(...) in the batch handler
\*              with a channel that is not a string)
\*   "batch"    _handle_market_stats_batch goes through the entries
\*   "dropped"  parse_ws_message raised, caught in _on_message
\*   "stats"    _handle_market_stats
outcome(frame) ==
    IF frame.json = "invalid" THEN "ignored"
    ELSE IF frame.json \in NotObjectKinds THEN "raises"
    ELSE IF frame.type = "update/market_stats" /\ frame.market_stats.kind = "batch"
         THEN IF /\ \E i \in 1..Len(frame.market_stats.entries) :
                        valid_body(frame.market_stats.entries[i])
                 /\ ~valid_channel(batch_channel(frame.channel))
              THEN "raises"
              ELSE "batch"
    ELSE IF parses(frame) THEN "stats"
    ELSE "dropped"

\* the manager and the store while a handler runs
HandlerState ==
    [store |-> StoreRecord, known_markets |-> known_markets, outbound |-> outbound,
     todo |-> <<>>, discovered |-> client_obs.discovered, ids |-> <<>>]

\* _handle_market_stats on H
handle_stats(H, stats) ==
    LET market_id == stats.market_id
        is_new == new_market(H.known_markets, market_id)
        enqueue == IF is_new
                   THEN <<subscribe(order_book_channel(market_id))>>
                   ELSE <<>>
        r == put_while_room(H.outbound, enqueue)
    IN  [store |-> stats_merged(H.store, stats, now),
         known_markets |-> IF is_new THEN H.known_markets \cup {market_id}
                           ELSE H.known_markets,
         outbound |-> r.queue,
         todo |-> r.todo,
         discovered |-> [H.discovered EXCEPT ![market_id] =
                           IF @ + Len(enqueue) > 2 THEN 2 ELSE @ + Len(enqueue)],
         ids |-> Append(H.ids, market_id)]

\* (a variant in which an entry that is skipped ends the loop)
break_at_skipped(entries) == <<>>

\* `continue`: the loop goes on with the entries after the one skipped
continue_after(entries) == Tail(entries)

\* the loop of _handle_market_stats_batch, until the entries are through or
\* a put waits for room
RECURSIVE handle_batch(_, _)
handle_batch(H, entries) ==
    IF entries = <<>> \/ H.todo # <<>>
    THEN [H |-> H, rest |-> entries]
    ELSE IF skipped(Head(entries))
         THEN handle_batch(H, continue_after(entries))
         ELSE handle_batch(handle_stats(H, Head(entries).stats), Tail(entries))

\* the state after a run of the batch loop
AfterBatch(b, entries, ids_before) ==
    /\ rows' = b.H.store.rows
    /\ pending' = b.H.store.pending
    /\ last_publish' = b.H.store.last_publish
    /\ flush_tasks' = b.H.store.flush_tasks
    /\ queues' = b.H.store.queues
    /\ store_obs' = b.H.store.store_obs
    /\ now' = now
    /\ known_markets' = b.H.known_markets
    /\ outbound' = b.H.outbound
    /\ reader' = [pc |-> IF b.H.todo = <<>> THEN "reading" ELSE "put",
                  todo |-> b.H.todo, rest |-> b.rest]
    /\ client_obs' = [client_obs EXCEPT
          !.handled = [kind |-> "batch", entries |-> entries,
                       ids |-> ids_before \o b.H.ids],
          !.discovered = b.H.discovered]
    /\ UNCHANGED <<phase, sender, socket, backoff, sleep>>

\* a frame that is a batch of stats records
ReceiveBatch(frame) ==
    /\ phase = "session"
    /\ reader.pc = "reading"
    /\ outcome(frame) = "batch"
    /\ AfterBatch(handle_batch(HandlerState, frame.market_stats.entries),
                  frame.market_stats.entries, <<>>)

\* the put that made the batch handler wait has room: it is done and the
\* loop goes on with the entries that are left
BatchResumePut ==
    /\ phase = "session"
    /\ reader.pc = "put"
    /\ reader.rest # <<>>
    /\ Len(outbound) < OutboundMax
    /\ LET r == put_while_room(outbound, reader.todo)
           H == [HandlerState EXCEPT !.outbound = r.queue, !.todo = r.todo]
       IN  AfterBatch(handle_batch(H, reader.rest),
                      client_obs.handled.entries, client_obs.handled.ids)

\* a frame that is ignored or dropped: the next frame is read
ReceiveDropped(frame) ==
    /\ phase = "session"
    /\ reader.pc = "reading"
    /\ outcome(frame) \in {"ignored", "dropped"}
    /\ UNCHANGED <<storeVars, queues, store_obs, clientVars>>
    /\ client_obs' = [client_obs EXCEPT
          !.handled = [kind |-> "malformed", frame |-> frame,
                       continued |-> phase' = "session" /\ reader'.pc = "reading",
                       unchanged |-> /\ rows' = rows
                                     /\ known_markets' = known_markets
                                     /\ outbound' = outbound
                                     /\ queues' = queues]]

\* a frame at which _on_message raises: the exception leaves
\* _handle_connection through its finally block (the send task is
\* cancelled) and run_ws_loop logs it and goes to its sleep
ReceiveRaises(frame) ==
    /\ phase = "session"
    /\ reader.pc = "reading"
    /\ outcome(frame) = "raises"
    /\ begin_sleep
    /\ reader' = [pc |-> "none", todo |-> <<>>, rest |-> <<>>]
    /\ sender' = [pc |-> "none", message |-> NoMessage]
    /\ UNCHANGED <<storeVars, queues, store_obs, known_markets, outbound, socket>>
    /\ client_obs' = [client_obs EXCEPT
          !.handled = [kind |-> "malformed", frame |-> frame,
                       continued |-> phase' = "session" /\ reader'.pc = "reading",
                       unchanged |-> /\ rows' = rows
                                     /\ known_markets' = known_markets
                                     /\ outbound' = outbound
                                     /\ queues' = queues]]

\* a frame with one stats record
ReceiveStats(frame) ==
    /\ outcome(frame) = "stats"
    /\ _handle_market_stats(frame.market_stats.stats)

LastPrice(market_id, price) ==
    [NullStats(market_id) EXCEPT !.last_trade_price = Some(price)]

STATS_TYPE == "update/market_stats"

\* batches: records of both markets around entries that are skipped, a
\* market twice, only skipped entries, and no channel or a number for one
Batches ==
    {Frame(STATS_TYPE, NoChannel,
           BatchValue(<<StatsValue(LastPrice(2, 2)), BadIdValue, StatsValue(LastPrice(1, 6))>>)),
     Frame(STATS_TYPE, StrChannel(STATS_FEED),
           BatchValue(<<NotDictValue, StatsValue(LastPrice(1, 2)), NoIdValue,
                        StatsValue(LastPrice(1, 6))>>)),
     Frame(STATS_TYPE, NumberChannel, BatchValue(<<BadIdValue, NotDictValue>>)),
     Frame(STATS_TYPE, NumberChannel, BatchValue(<<BadIdValue, StatsValue(LastPrice(1, 2))>>))}

\* frames that are not a message: not JSON, not an object, a type the
\* parser does not know, a stats frame whose record or channel is rejected
Malformed ==
    {NotJson, JsonArray, JsonNumber, JsonString, JsonNull,
     Frame("pong", NoChannel, NotDictValue),
     Frame(STATS_TYPE, StrChannel(STATS_FEED), BadIdValue),
     Frame(STATS_TYPE, StrChannel(STATS_FEED), NotDictValue),
     Frame(STATS_TYPE, NumberChannel, StatsValue(LastPrice(1, 2)))}

SingleStats ==
    {Frame(STATS_TYPE, StrChannel(STATS_FEED), StatsValue(LastPrice(m, 2))) :
        m \in Markets}

Frames == Batches \cup Malformed \cup SingleStats

FramesStats == \E frame \in Frames : ReceiveStats(frame) /\ UNCHANGED NotClient
FramesBatch == \E frame \in Frames : ReceiveBatch(frame) /\ UNCHANGED NotClient
FramesBatchResume == BatchResumePut /\ UNCHANGED NotClient
FramesDropped == \E frame \in Frames : ReceiveDropped(frame) /\ UNCHANGED <<NotClient, now>>
FramesRaises == \E frame \in Frames : ReceiveRaises(frame) /\ UNCHANGED <<NotClient, now>>

NextFrames ==
    \/ ClientConnect \/ ClientBackoffDone \/ ClientResumePut
    \/ ClientSenderGet \/ ClientSendOk \/ ClientDisconnect
    \/ FramesStats \/ FramesBatch \/ FramesBatchResume
    \/ FramesDropped \/ FramesRaises

SpecFrames == Init /\ [][NextFrames]_vars

\* C12: an inbound frame that is not valid JSON, fails message validation or
\* has an unknown type is dropped: the session goes on with the next frame,
\* and the rows of the store, the known markets, the outbound queue and the
\* queues of the bus are as they were before the frame.
C12_MalformedFrameDropped ==
    client_obs.handled.kind = "malformed" =>
        /\ client_obs.handled.continued
        /\ client_obs.handled.unchanged

\* the records of a batch that are valid, in container order
ValidIds(entries) ==
    LET valid == SelectSeq(entries, LAMBDA e : e.kind = "stats")
    IN  [i \in 1..Len(valid) |-> valid[i].stats.market_id]

----------------------------------------------------------------------------
(* More properties of the bus *)

\* C14: after close(), every subscriber that was registered when close() was
\* called dequeues the sentinel {type: "closed"} as the end of its stream,
\* whatever was in its queue, a queue at capacity included.  Nothing puts the
\* sentinel after close() returned, so until the subscriber has taken it the
\* sentinel is in its queue.
C14_SentinelQueuedAtClose ==
    \A s \in Subs :
        (bus_obs.at_close[s] /\ sub_state[s] = "active")
            => \E i \in 1..Len(queues[s]) : queues[s][i] = CLOSED

\* the step is a call of publish
IsPublish == bus_obs'.published = bus_obs.published + 1

\* C15: publish(m) to a subscriber whose queue holds capacity messages
\* q1..qN leaves q2..qN, m; to a queue with room it appends m; no queue ever
\* holds more than its capacity; and the one call reaches every registered
\* queue, whatever the others hold: it waits for none.
C15_PublishDropsOldestOnly ==
    /\ [](\A s \in Subs : Len(queues[s]) <= QUEUE_SIZE)
    /\ [][IsPublish =>
            \A s \in Subs :
                queues'[s] =
                    IF s \notin subscribers THEN queues[s]
                    ELSE IF Len(queues[s]) = QUEUE_SIZE
                         THEN SubSeq(queues[s], 2, QUEUE_SIZE)
                                \o <<Message(bus_obs'.published)>>
                         ELSE queues[s] \o <<Message(bus_obs'.published)>>]_vars

\* A publish found one subscriber's queue full and another's with room:
\* the first holds the newest QUEUE_SIZE messages, the second got the message.
C15_Witness ==
    \E s, t \in Subs :
        /\ s \in subscribers /\ t \in subscribers
        /\ bus_obs.dropped[s] /\ ~bus_obs.dropped[t]
        /\ Len(queues[s]) = QUEUE_SIZE
        /\ queues[s][QUEUE_SIZE] = bus_obs.last_pub[s]
        /\ queues[t] # <<>>
        /\ queues[t][Len(queues[t])] = bus_obs.last_pub[s]

\* the step is subscriber s taking a data message from its queue
IsDequeue(s) ==
    /\ sub_state[s] = "active" /\ sub_state'[s] = "active"
    /\ queues[s] # <<>> /\ queues'[s] = Tail(queues[s])
    /\ bus_obs'.published = bus_obs.published

\* C16: what one subscriber dequeues is a subsequence of what was published
\* while it was registered, in publish order: every message it dequeues was
\* published after it registered and while it was registered, and later than
\* the message it dequeued before, so that none comes twice and no two come
\* in reversed order.
C16_DequeuedInPublishOrder ==
    [][\A s \in Subs :
          IsDequeue(s) =>
              /\ bus_obs'.last_deq[s] = Head(queues[s])
              /\ bus_obs'.last_deq[s].n > bus_obs.joined[s]
              /\ bus_obs'.last_deq[s].n <= bus_obs.last_pub[s].n
              /\ bus_obs.last_deq[s] # NoMessage =>
                    bus_obs'.last_deq[s].n > bus_obs.last_deq[s].n]_vars

\* A subscriber that registered after the first publish and lost a message
\* to overflow has dequeued a later one and has more in its queue.
C16_Witness ==
    \E s \in Subs :
        /\ bus_obs.joined[s] > 0
        /\ bus_obs.dropped[s]
        /\ bus_obs.last_deq[s] # NoMessage
        /\ bus_obs.last_deq[s].n > bus_obs.joined[s] + 1
        /\ Queued(s) # {}

----------------------------------------------------------------------------
(* The merges of the store, call by call *)

MergeMarkets == {1}

\* prices large enough for the relative tolerance of _almost_equal to be
\* more than one unit
Billion == 1000000000

AllStats(market_id) ==
    [market_id |-> market_id, index_price |-> Some(2), mark_price |-> Some(6),
     open_interest |-> Some(5), last_trade_price |-> Some(6),
     current_funding_rate |-> Some(1), funding_rate |-> None,
     daily_base_token_volume |-> Some(3), daily_quote_token_volume |-> None]

\* stats records: a last price only, every field, none, and two mark/index
\* pairs whose differences are within the tolerance of each other
MergeStatsInputs ==
    UNION {{LastPrice(m, 2),
            AllStats(m),
            NullStats(m),
            [NullStats(m) EXCEPT !.mark_price = Some(2 * Billion),
                                 !.index_price = Some(Billion)],
            [NullStats(m) EXCEPT !.mark_price = Some(2 * Billion + 4),
                                 !.index_price = Some(Billion + 3)]} : m \in MergeMarkets}

\* order books: two-sided, empty, and two whose mid prices are within the
\* tolerance of each other while their best prices are not
MergeBookInputs ==
    BookInputs(MergeMarkets) \cup
    UNION {{[channel |-> feed_channel(m),
             order_book |-> [asks |-> <<Level(Billion + 10, 1)>>,
                             bids |-> <<Level(Billion, 1)>>]],
            [channel |-> feed_channel(m),
             order_book |-> [asks |-> <<Level(Billion + 14, 1)>>,
                             bids |-> <<Level(Billion - 2, 1)>>]]} : m \in MergeMarkets}

\* the row a merge starts from
RowBefore(market_id) == Existing(market_id)

\* nothing of the publishing side moved in the step
Quiet ==
    /\ pending' = pending
    /\ last_publish' = last_publish
    /\ flush_tasks' = flush_tasks
    /\ queues' = queues
    /\ store_obs' = store_obs

\* the emission of the step for the market, if it made one: _emit sets
\* last_publish to a time that is at least the debounce after the old one
EmissionOf(market_id) ==
    IF last_publish'[market_id] # last_publish[market_id]
    THEN store_obs'.emitted[market_id]
    ELSE NoEmission

\* apply_market_stats, observed
merge_stats_call(stats) ==
        /\ apply_market_stats(stats)
        /\ LET r == _apply_stats(Existing(stats.market_id), stats)
           IN  call_obs' = [kind |-> "stats",
                            input |-> stats,
                            existed |-> rows[stats.market_id] # NoRow,
                            before |-> RowBefore(stats.market_id),
                            after |-> rows'[stats.market_id],
                            reported |-> r.c,
                            returned |-> merge_returns(stats.market_id, r),
                            quiet |-> Quiet,
                            emission |-> EmissionOf(stats.market_id),
                            repeated |-> call_obs.kind = "stats" /\ call_obs.input = stats]
        /\ UNCHANGED <<subscribers, sub_state, bus_obs, clientVars, client_obs, analyticsVars, managerVars, wire>>

MergeStats == \E stats \in MergeStatsInputs : merge_stats_call(stats)

MergeBook ==
    \E msg \in MergeBookInputs :
        /\ apply_order_book(msg)
        /\ LET market_id == Val(_extract_market_id(msg.channel))
               r == _apply_order_book(Existing(market_id),
                                      msg.order_book.asks, msg.order_book.bids)
           IN  call_obs' = [kind |-> "book",
                            input |-> msg,
                            existed |-> rows[market_id] # NoRow,
                            before |-> RowBefore(market_id),
                            after |-> rows'[market_id],
                            reported |-> r.c,
                            returned |-> merge_returns(market_id, r),
                            quiet |-> Quiet,
                            emission |-> EmissionOf(market_id),
                            repeated |-> FALSE]
        /\ UNCHANGED <<subscribers, sub_state, bus_obs, clientVars, client_obs, analyticsVars, managerVars, wire>>

\* The clock stands still: after a market's first emission its updates are
\* pending, and a flush task waits.
NextMerge == MergeStats \/ MergeBook

SpecMerge == Init /\ [][NextMerge]_vars

\* the six fields a stats record supplies
StatsFields ==
    {"last_price", "mark_price", "index_price", "open_interest",
     "funding_rate", "daily_volume"}

\* the incoming value of each of them
Incoming(stats) ==
    [f \in StatsFields |->
        CASE f = "last_price" -> stats.last_trade_price
          [] f = "mark_price" -> stats.mark_price
          [] f = "index_price" -> stats.index_price
          [] f = "open_interest" -> stats.open_interest
          [] f = "funding_rate" -> effective_funding_rate(stats)
          [] f = "daily_volume" -> effective_daily_volume(stats)]

\* C17: a stats message for a market whose row exists, every non-null field
\* of which equals the stored value, produces no emission, returns null and
\* leaves the row (updated_ms included), the pending updates and the flush
\* tasks as they were; so does the second of two applications of the same
\* message, which makes one emission of the two.
C17_RedundantStatsIsSilent ==
    LET c == call_obs IN
    c.kind = "stats" =>
        LET same == /\ c.existed
                    /\ \A f \in StatsFields :
                          Incoming(c.input)[f] = None \/ Incoming(c.input)[f] = c.before[f]
        IN  (same \/ c.repeated) =>
                /\ c.returned = None
                /\ c.after = c.before
                /\ c.quiet

\* The same stats message was applied twice: the first application was
\* emitted, the second changed nothing.
C17_Witness ==
    /\ call_obs.kind = "stats"
    /\ call_obs.repeated
    /\ call_obs.input.last_trade_price # None
    /\ call_obs.after["last_price"] = call_obs.input.last_trade_price
    /\ store_obs.emitted[1] # NoEmission
    /\ pending[1] = NoPending

C19_MidAndSpreadFollowBestPrices ==
    \A m \in Markets :
        rows[m] # NoRow =>
            LET row == rows[m]
                bid == row["best_bid_price"]
                ask == row["best_ask_price"]
            IN  /\ (bid # None /\ ask # None) =>
                      /\ row["mid_price"] = Some((Val(bid) + Val(ask)) \div 2)
                      /\ Val(row["mid_price"]) # 0 =>
                            row["spread"] = Some(((Val(ask) - Val(bid)) * 10000)
                                                   \div Val(row["mid_price"]))
                /\ bid = None =>
                      /\ row["best_bid_size"] = None
                      /\ row["mid_price"] = None
                      /\ row["spread"] = None
                /\ ask = None =>
                      /\ row["best_ask_size"] = None
                      /\ row["mid_price"] = None
                      /\ row["spread"] = None

\* the difference of two fields of a row, absent when one of them is
Difference(row, minuend, subtrahend) ==
    IF row[minuend] = None \/ row[subtrahend] = None
    THEN None
    ELSE Some(Val(row[minuend]) - Val(row[subtrahend]))

\* C20 as stated: in every stored row, basis = mark_price - index_price when
\* both are present and is absent otherwise, and markout = mid_price -
\* last_price when both are present and is absent otherwise.
C20_Original ==
    \A m \in Markets :
        rows[m] # NoRow =>
            /\ rows[m]["basis"] = Difference(rows[m], "mark_price", "index_price")
            /\ rows[m]["markout"] = Difference(rows[m], "mid_price", "last_price")

\* C20, amended: in every stored row, basis is present exactly when
\* mark_price and index_price are, and is then within the store's change
\* tolerance (relative 1e-9, absolute 1e-9) of mark_price - index_price;
\* markout is present exactly when mid_price and last_price are, and is then
\* within that tolerance of mid_price - last_price.
C20_DerivedWithinTolerance ==
    \A m \in Markets :
        rows[m] # NoRow =>
            /\ _almost_equal(rows[m]["basis"],
                             Difference(rows[m], "mark_price", "index_price"))
            /\ _almost_equal(rows[m]["markout"],
                             Difference(rows[m], "mid_price", "last_price"))

\* A row whose basis was kept when mark and index moved, next to a markout
\* that was computed from a book and a last price.
C20_Witness ==
    /\ rows[1] # NoRow
    /\ rows[1]["basis"] # None
    /\ Val(rows[1]["basis"]) # Val(rows[1]["mark_price"]) - Val(rows[1]["index_price"])
    /\ rows[1]["markout"] # None

\* C21: the first merge (stats or order book) for a market without a row
\* creates the row, marks every field of the row as changed, returns the new
\* row and publishes an emission with every field of the row, also when
\* every incoming numeric field is null.
C21_FirstMergeSeedsRow ==
    LET c == call_obs IN
    (c.kind \in {"stats", "book"} /\ ~c.existed) =>
        /\ c.after # NoRow
        /\ c.returned = Some(c.after)
        /\ c.emission # NoEmission
        /\ c.emission.reported = MarketRowFields
        /\ DOMAIN c.emission.update = MarketRowFields
        /\ \A f \in MarketRowFields \ {"symbol"} : c.emission.update[f] = c.after[f]
        /\ c.emission.update["symbol"] # None

\* The first message for the market was a stats record with every field null.
C21_Witness ==
    /\ call_obs.kind = "stats"
    /\ ~call_obs.existed
    /\ call_obs.input = NullStats(1)
    /\ call_obs.emission # NoEmission
    /\ rows[1] # NoRow

----------------------------------------------------------------------------
(* ws_manager.py: stop().  phase, the position of the client task, goes   *)
(* on to "cancelling" (stop() has set the stop event, put the sentinel,    *)
(* cancelled the task and awaits it), "done" (the task has ended) and      *)
(* "stopped" (stop() has returned).                                        *)

\* the None that stop() puts on the outbound queue
SENTINEL == [type |-> "sentinel"]

\* is_running(): self._task is not None and not self._task.done()
is_running == phase \in {"connecting", "session", "sleeping", "cancelling"}

\* stop() up to `await self._task`
stop_begin ==
    /\ phase \in {"connecting", "session", "sleeping"}
    /\ phase' = "cancelling"
    /\ outbound' = IF Len(outbound) < OutboundMax THEN Append(outbound, SENTINEL) ELSE outbound
    /\ UNCHANGED <<known_markets, reader, sender, socket, backoff, sleep, client_obs>>

\* the send task runs once more before the cancellation reaches it: the
\* write it was in returns, or its get returns the head of the queue (a
\* message it writes or not, or the sentinel); the stop event ends its loop
stop_sender ==
    /\ phase = "cancelling"
    /\ sender.pc \in {"idle", "sending"}
    /\ sender.pc = "idle" => outbound # <<>>
    /\ LET taken == IF sender.pc = "sending" THEN sender.message ELSE Head(outbound)
       IN  \E written \in BOOLEAN :
              socket' = IF written /\ taken # SENTINEL
                        THEN socket \cup {taken.channel}
                        ELSE socket
    /\ outbound' = IF sender.pc = "idle" THEN Tail(outbound) ELSE outbound
    /\ sender' = [pc |-> "none", message |-> NoMessage]
    /\ UNCHANGED <<known_markets, phase, reader, backoff, sleep, client_obs>>

\* CancelledError reaches run_ws_loop where it waits (connect, a frame, a
\* put, the sleep); _handle_connection's finally cancels the send task
task_cancelled ==
    /\ phase = "cancelling"
    /\ phase' = "done"
    /\ reader' = [pc |-> "none", todo |-> <<>>, rest |-> <<>>]
    /\ sender' = [pc |-> "none", message |-> NoMessage]
    /\ UNCHANGED <<known_markets, outbound, socket, backoff, sleep, client_obs>>

\* stop() after `await self._task`: the queue is drained, the store closed
stop_return ==
    /\ phase = "done"
    /\ phase' = "stopped"
    /\ outbound' = <<>>
    /\ store_close
    /\ UNCHANGED <<known_markets, reader, sender, socket, backoff, sleep, client_obs>>

StopMarkets == {1}
StopStatsInputs == {LastPrice(1, 2), LastPrice(1, 6)}

NotSession == <<storeVars, store_obs, busVars, bus_obs, call_obs, analyticsVars, managerVars, wire>>

StopStats == \E stats \in StopStatsInputs : _handle_market_stats(stats) /\ UNCHANGED NotClient
StopFlush == \E m \in StopMarkets : _delayed_emit(m) /\ UNCHANGED NotStore
StopTick == Tick /\ UNCHANGED NotStore
StopBegin == stop_begin /\ UNCHANGED NotSession
StopSender == stop_sender /\ UNCHANGED NotSession
StopTaskCancelled == task_cancelled /\ UNCHANGED NotSession
StopReturn == stop_return /\ UNCHANGED <<subscribers, sub_state, bus_obs, call_obs, analyticsVars, managerVars, wire>>

NextStop ==
    \/ ClientConnect \/ ClientDisconnect \/ ClientBackoffDone
    \/ ClientSenderGet \/ ClientSendOk
    \/ StopStats \/ StopFlush \/ StopTick
    \/ StopBegin \/ StopSender \/ StopTaskCancelled \/ StopReturn

SpecStop == Init /\ [][NextStop]_vars

\* C22: after stop() has returned the client task is not running, the
\* outbound queue is empty (the sentinel is not in it), the store has no
\* flush task, and with no new mutation no emission reaches the bus: the
\* updates that were pending at close stay where they are.
C22_StoppedIsQuiet ==
    /\ [](phase = "stopped" =>
            /\ ~is_running
            /\ outbound = <<>>
            /\ \A m \in Markets : flush_tasks[m] = None)
    /\ [][phase = "stopped" =>
            /\ queues' = queues
            /\ last_publish' = last_publish
            /\ pending' = pending
            /\ store_obs'.emitted = store_obs.emitted]_vars

\* stop() returned after a session: an update was pending with its flush
\* task when it was called, and the time of the flush has passed since.
C22_Witness ==
    /\ phase = "stopped"
    /\ client_obs.connect # NoConnect
    /\ pending[1] # NoPending
    /\ now >= last_publish[1] + Debounce



----------------------------------------------------------------------------
(* analytics.py: compute_cross_sectional_zscores                            *)
(* Python floats carry a significand of 53 bits and every operation rounds  *)
(* its exact result to the nearest float, ties to even. The model keeps     *)
(* that arithmetic with a significand of FloatBits bits over the integers.  *)

FloatBits == 3

RECURSIVE bit_length(_)
bit_length(n) == IF n = 0 THEN 0 ELSE 1 + bit_length(n \div 2)

RECURSIVE Pow2(_)
Pow2(k) == IF k = 0 THEN 1 ELSE 2 * Pow2(k - 1)

\* the float nearest to num / den, for den > 0
fl_ratio(num, den) ==
    LET mag == Abs(num)
        k == Max2(0, bit_length(mag \div den) - FloatBits)
        d == den * Pow2(k)
        q == mag \div d
        r == mag % d
        m == IF 2 * r > d \/ (2 * r = d /\ q % 2 = 1) THEN q + 1 ELSE q
    IN  IF num < 0 THEN -(m * Pow2(k)) ELSE m * Pow2(k)

fl_add(a, b) == fl_ratio(a + b, 1)
fl_sub(a, b) == fl_ratio(a - b, 1)
fl_mul(a, b) == fl_ratio(a * b, 1)
fl_div(a, b) == IF b < 0 THEN fl_ratio(-a, -b) ELSE fl_ratio(a, b)

\* sum(...) of floats, left to right from 0
RECURSIVE fl_sum(_)
fl_sum(values) ==
    IF values = <<>>
    THEN 0
    ELSE fl_add(fl_sum(SubSeq(values, 1, Len(values) - 1)), values[Len(values)])

\* math.sqrt: the float nearest to the root, from the integer root of 16 x
\* and a sticky bit for what it cuts off
fl_sqrt(x) ==
    LET y == 16 * x
        s == CHOOSE n \in 0..(y + 1) : n * n <= y /\ (n + 1) * (n + 1) > y
        sticky == IF s * s = y THEN 0 ELSE 1
    IN  fl_ratio(2 * s + sticky, 8)

\* the non-null funding rates, in the order of the rows
RECURSIVE funding_values(_)
funding_values(input_rows) ==
    IF input_rows = <<>>
    THEN <<>>
    ELSE LET init == funding_values(SubSeq(input_rows, 1, Len(input_rows) - 1))
             row == input_rows[Len(input_rows)]
         IN  IF row["funding_rate"] = None
             THEN init
             ELSE Append(init, Val(row["funding_rate"]))

\* Dict[int, Optional[float]], keyed by market id
compute_cross_sectional_zscores(input_rows, min_assets_per_time, ddof) ==
    LET ids == {input_rows[i]["market_id"] : i \in 1..Len(input_rows)}
        row_of(id) == input_rows[CHOOSE i \in 1..Len(input_rows) :
                                    /\ input_rows[i]["market_id"] = id
                                    /\ \A j \in (i + 1)..Len(input_rows) :
                                           input_rows[j]["market_id"] # id]
        values == funding_values(input_rows)
        count == Len(values)
        all_none == [id \in ids |-> None]
    IN  IF count < min_assets_per_time
        THEN all_none
        ELSE LET mean == fl_div(fl_sum(values), count)
                 squares == [i \in 1..count |->
                                LET dev == fl_sub(values[i], mean) IN fl_mul(dev, dev)]
                 variance_sum == fl_sum(squares)
                 divisor == Max2(count - ddof, 1)
                 std == fl_sqrt(fl_div(variance_sum, divisor))
             IN  IF std <= 0
                 THEN all_none
                 ELSE [id \in ids |->
                          IF row_of(id)["funding_rate"] = None
                          THEN None
                          ELSE Some(fl_div(fl_sub(Val(row_of(id)["funding_rate"]), mean),
                                           std))]

\* (a variant that orders by open interest and market id only)
sort_key_without_z(row, zscores) ==
    LET oi == IF row["open_interest"] = None THEN 0 ELSE Val(row["open_interest"])
    IN  <<0, 0, -oi, row["market_id"]>>

\* _compute_and_publish, the branch of a store that has rows: sort_key. The
\* first component orders float("inf"), the key of an absent z, after
\* every -z.
sort_key(row, zscores) ==
    LET z == zscores[row["market_id"]]
        oi == IF row["open_interest"] = None THEN 0 ELSE Val(row["open_interest"])
    IN  IF z = None
        THEN <<1, 0, -oi, row["market_id"]>>
        ELSE <<0, -Val(z), -oi, row["market_id"]>>

\* sorted(rows, key=sort_key)
RECURSIVE ordered_rows(_, _)
ordered_rows(S, zscores) ==
    IF S = {}
    THEN <<>>
    ELSE LET first == CHOOSE r \in S :
                          \A q \in S : ~tuple_less(sort_key(q, zscores), sort_key(r, zscores))
         IN  <<first>> \o ordered_rows(S \ {first}, zscores)

\* one record of payload_rows
payload_row(row, zscores) ==
    [market_id |-> row["market_id"],
     symbol |-> for_wire(row)["symbol"],
     funding_rate |-> row["funding_rate"],
     open_interest |-> row["open_interest"],
     zscore |-> zscores[row["market_id"]]]

RECURSIVE payload_of(_, _)
payload_of(ordered, zscores) ==
    IF ordered = <<>>
    THEN <<>>
    ELSE <<payload_row(Head(ordered), zscores)>> \o payload_of(Tail(ordered), zscores)

ordered_payload(input_rows, zscores) ==
    payload_of(ordered_rows({input_rows[i] : i \in 1..Len(input_rows)}, zscores), zscores)

payload_rows(input_rows, min_assets) ==
    ordered_payload(input_rows, compute_cross_sectional_zscores(input_rows, min_assets, 0))

\* The functions on their own: rows of distinct markets as the store lists
\* them, some without a funding rate or an open interest, some with equal
\* ones.
ZMarkets == 1..(NumMarkets + 1)
ZRates == {None, Some(6), Some(14)}
ZInterests == {None, Some(0), Some(2)}
ZRow(market_id, rate, oi) ==
    SetField(SetField(_fresh_row(market_id, 0), "funding_rate", rate), "open_interest", oi)

ZCall ==
    /\ funding_obs.kind = "loop"
    /\ \E ms \in SUBSET ZMarkets, min_assets \in {2, 3}, ddof \in {0, 1} :
        \E rate \in [ms -> ZRates], oi \in [ms -> ZInterests] :
            LET input_rows == sorted_rows({ZRow(m, rate[m], oi[m]) : m \in ms})
            IN  /\ funding_obs' =
                       [kind |-> "zscores",
                        rows |-> input_rows,
                        min_assets |-> min_assets,
                        ddof |-> ddof,
                        result |-> compute_cross_sectional_zscores(input_rows,
                                                                   min_assets, ddof),
                        payload |-> payload_rows(input_rows, min_assets)]
                /\ UNCHANGED <<storeVars, busVars, clientVars, obsVars, analytics, managerVars, wire>>

SpecZ == Init /\ [][ZCall]_vars

\* the funding rates of the rows that have one
RatesOf(input_rows) ==
    {Val(input_rows[i]["funding_rate"]) :
        i \in {j \in 1..Len(input_rows) : input_rows[j]["funding_rate"] # None}}

\* C25: compute_cross_sectional_zscores returns one entry per input row; if
\* fewer than min_assets rows have a funding rate, or all the funding rates
\* are equal, every z-score is null; otherwise a row's z-score is null
\* exactly when its funding rate is null.
C25_ZScoreNullRule ==
    funding_obs.kind = "zscores" =>
        LET input_rows == funding_obs.rows
            result == funding_obs.result
            with_rate == {i \in 1..Len(input_rows) : input_rows[i]["funding_rate"] # None}
        IN  /\ Cardinality(DOMAIN result) = Len(input_rows)
            /\ \A i \in 1..Len(input_rows) : input_rows[i]["market_id"] \in DOMAIN result
            /\ IF \/ Cardinality(with_rate) < funding_obs.min_assets
                  \/ Cardinality(RatesOf(input_rows)) <= 1
               THEN \A id \in DOMAIN result : result[id] = None
               ELSE \A i \in 1..Len(input_rows) :
                       result[input_rows[i]["market_id"]] = None
                           <=> input_rows[i]["funding_rate"] = None

\* C26: the rows of a funding snapshot are a permutation of the store's rows,
\* one record per market, in the order (z absent last, z descending, open
\* interest descending with null as 0, market id ascending): rows with a
\* z-score precede rows without one, and a higher z comes first.
C26_SnapshotOrder ==
    funding_obs.kind = "zscores" =>
        LET input_rows == funding_obs.rows
            out == funding_obs.payload
            oi(r) == IF r.open_interest = None THEN 0 ELSE Val(r.open_interest)
        IN  /\ Len(out) = Len(input_rows)
            /\ \A i \in 1..Len(input_rows) :
                   \E j \in 1..Len(out) :
                       /\ out[j].market_id = input_rows[i]["market_id"]
                       /\ out[j].funding_rate = input_rows[i]["funding_rate"]
                       /\ out[j].open_interest = input_rows[i]["open_interest"]
            /\ \A i, j \in 1..Len(out) :
                   i < j =>
                       /\ out[i].market_id # out[j].market_id
                       /\ out[i].zscore = None => out[j].zscore = None
                       /\ (out[i].zscore # None /\ out[j].zscore # None) =>
                              Val(out[i].zscore) >= Val(out[j].zscore)
                       /\ (out[i].zscore = out[j].zscore) =>
                              /\ oi(out[i]) >= oi(out[j])
                              /\ oi(out[i]) = oi(out[j]) => out[i].market_id < out[j].market_id

\* three rows: the one with the lower z and the one with none come after the
\* higher z, although their market ids are smaller
C26_Witness ==
    /\ funding_obs.kind = "zscores"
    /\ Len(funding_obs.payload) = 3
    /\ funding_obs.payload[1].market_id = 3
    /\ funding_obs.payload[1].zscore # None
    /\ funding_obs.payload[2].zscore # None
    /\ funding_obs.payload[2].zscore # funding_obs.payload[1].zscore
    /\ funding_obs.payload[3].zscore = None
    /\ funding_obs.payload[3].market_id = 1

----------------------------------------------------------------------------
(* analytics.py: FundingAnalytics                                           *)
(* _compute_and_publish never suspends (the locks of the store and of the  *)
(* bus are free whenever a task runs), so a cycle of _run is one step up   *)
(* to its wait_for.                                                         *)

\* interval_seconds and min_assets, as the test constructs the object
Interval == 1
MinAssets == 2

\* MarketStore.rows
stored_rows == sorted_rows({rows[m] : m \in {m \in Markets : rows[m] # NoRow}})

\* FundingSnapshot(timestamp_ms, rows), of either branch
funding_snapshot(t) ==
    IF stored_rows = <<>>
    THEN [timestamp_ms |-> _now_ms(t), rows |-> <<>>]
    ELSE [timestamp_ms |-> _now_ms(t), rows |-> payload_rows(stored_rows, MinAssets)]

\* {"type": "snapshot", "timestamp": snapshot.timestamp_ms, "rows": ...}
snapshot_message(snap) ==
    [type |-> "snapshot", timestamp |-> snap.timestamp_ms, rows |-> snap.rows]

\* (a variant that caches only a snapshot that has rows)
cache_rows_only(snap) ==
    [latest |-> IF snap.rows = <<>> THEN analytics.latest ELSE snap,
     message |-> snapshot_message(snap)]

\* self._latest = snapshot; await self._bus.publish(...)
cache_and_publish(snap) ==
    [latest |-> snap, message |-> snapshot_message(snap)]

\* what a cycle leaves in _latest and what it publishes
_compute_and_publish(t) == cache_and_publish(funding_snapshot(t))

\* (a variant whose wait is over at once)
no_wait(t) == t

\* asyncio.wait_for(self._stop_event.wait(), timeout=self._interval)
wait_deadline(t) == t + Interval

\* one turn of the loop of _run: compute, publish, wait
cycle_of(r, which, count) ==
    /\ funding_obs.published < MaxPublished
    /\ analytics' = [task |-> "waiting",
                     stop_event |-> analytics.stop_event,
                     deadline |-> wait_deadline(now),
                     latest |-> r.latest]
    /\ funding_obs' = [kind |-> "loop",
                       published |-> funding_obs.published + 1,
                       last |-> r.message,
                       at |-> now,
                       stored |-> count,
                       cycle |-> which,
                       saw_empty |-> funding_obs.saw_empty \/ count = 0]

cycle(which) == cycle_of(_compute_and_publish(now), which, Len(stored_rows))

analytics_start ==
    /\ analytics.task = "none"
    /\ analytics' = [analytics EXCEPT !.stop_event = FALSE, !.task = "created"]
    /\ UNCHANGED funding_obs

\* the task's first run
_run ==
    /\ analytics.task = "created"
    /\ ~analytics.stop_event
    /\ cycle("start")

\* the wait timed out: continue, and the loop tests the stop event
wait_timeout ==
    /\ analytics.task = "waiting"
    /\ now >= analytics.deadline
    /\ IF analytics.stop_event
       THEN /\ analytics' = [analytics EXCEPT !.task = "done"]
            /\ UNCHANGED funding_obs
       ELSE cycle("timer")

\* stop(): set the event, cancel the task and await it
analytics_stop ==
    /\ analytics.task \in {"none", "created", "waiting"}
    /\ analytics' = [analytics EXCEPT
                        !.stop_event = TRUE,
                        !.task = IF analytics.task = "none" THEN "none" ELSE "cancelling"]
    /\ UNCHANGED funding_obs

\* the cancelled task ends at its next resumption and stop() returns
analytics_stopped ==
    /\ analytics.task = "cancelling"
    /\ analytics' = [analytics EXCEPT !.task = "none"]
    /\ UNCHANGED funding_obs

\* one stats record per market: a funding rate, with or without an open interest
FundingStats(market_id, rate, oi) ==
    [NullStats(market_id) EXCEPT !.current_funding_rate = rate, !.open_interest = oi]

AnalyticsStatsInputs ==
    {IF m % 2 = 1 THEN FundingStats(m, Some(6), Some(2)) ELSE FundingStats(m, Some(14), None) :
        m \in Markets}

NotAnalytics == <<storeVars, busVars, clientVars, obsVars, managerVars, wire>>

AnalyticsStart == analytics_start /\ UNCHANGED NotAnalytics
AnalyticsRun == _run /\ UNCHANGED NotAnalytics
AnalyticsTimeout == wait_timeout /\ UNCHANGED NotAnalytics
AnalyticsStop == analytics_stop /\ UNCHANGED NotAnalytics
AnalyticsStopped == analytics_stopped /\ UNCHANGED NotAnalytics
AnalyticsStats == \E stats \in AnalyticsStatsInputs : apply_market_stats(stats) /\ UNCHANGED NotStore
AnalyticsTick == Tick /\ UNCHANGED NotStore

NextAnalytics ==
    \/ AnalyticsStart \/ AnalyticsRun \/ AnalyticsTimeout \/ AnalyticsStop
    \/ AnalyticsStopped \/ AnalyticsStats \/ AnalyticsTick

\* the event loop runs a cancelled task
SpecAnalytics ==
    Init /\ [][NextAnalytics]_vars /\ WF_vars(AnalyticsStopped)

IsFundingPublish == funding_obs'.published # funding_obs.published

\* C23: the loop publishes one snapshot at its start and then one per
\* interval: every publish is the task's first step or follows a wait that
\* timed out, an interval or more after the previous one, and is followed by
\* a wait of one interval; once the stop signal is set no snapshot is
\* published, and the loop terminates.
C23_OnePerInterval ==
    /\ [][(analytics.task = "created" /\ analytics'.task # "created")
              => (IsFundingPublish \/ analytics.stop_event \/ analytics'.stop_event)]_vars
    /\ [][IsFundingPublish =>
              /\ funding_obs'.published = funding_obs.published + 1
              /\ \/ analytics.task = "created"
                 \/ /\ analytics.task = "waiting"
                    /\ now >= analytics.deadline
                    /\ now >= funding_obs.at + Interval
              /\ analytics'.task = "waiting"
              /\ analytics'.deadline = now + Interval]_vars
    /\ [][(analytics.stop_event \/ analytics'.stop_event) => ~IsFundingPublish]_vars
    /\ (analytics.task = "cancelling") ~> (analytics.task = "none")

\* a start, a timer cycle, then a stop during the wait; the timer's due time
\* passes without a publish
C23_Witness ==
    /\ funding_obs.published >= 2
    /\ funding_obs.cycle = "timer"
    /\ analytics.stop_event
    /\ analytics.task = "none"
    /\ now >= analytics.deadline

\* C24: whenever a snapshot has been published on the funding bus, latest
\* holds that snapshot, timestamp and rows; latest is null only before the
\* first cycle; a cycle over an empty store publishes and caches a snapshot
\* with no rows.
C24_LatestIsPublished ==
    /\ funding_obs.published = 0 <=> analytics.latest = NoSnapshot
    /\ funding_obs.published > 0 =>
           /\ funding_obs.last.type = "snapshot"
           /\ analytics.latest.timestamp_ms = funding_obs.last.timestamp
           /\ analytics.latest.rows = funding_obs.last.rows
           /\ funding_obs.stored = 0 =>
                  /\ funding_obs.last.rows = <<>>
                  /\ analytics.latest.rows = <<>>
                  /\ analytics.latest.timestamp_ms = _now_ms(funding_obs.at)
           /\ Len(funding_obs.last.rows) = funding_obs.stored

\* a cycle over the empty store, later a cycle over two rows
C24_Witness ==
    /\ funding_obs.saw_empty
    /\ funding_obs.published >= 2
    /\ Len(funding_obs.last.rows) = 2
    /\ analytics.latest.rows = funding_obs.last.rows

----------------------------------------------------------------------------
(* store.py: MarketStore.snapshot and MarketStore.rows                      *)

\* both calls, made while no other task runs: the lists they return
list_rows ==
    /\ call_obs' = [kind |-> "rows",
                    stored |-> rows,
                    rows |-> stored_rows,
                    snapshot |-> snapshot]
    /\ UNCHANGED <<storeVars, queues, store_obs>>

\* stats records that set an open interest, or nothing
InterestStats(market_id, oi) == [NullStats(market_id) EXCEPT !.open_interest = oi]

RowsStatsInputs ==
    UNION {{NullStats(m), InterestStats(m, Some(2)), InterestStats(m, Some(5))} :
              m \in Markets}

RowsStats == \E stats \in RowsStatsInputs : apply_market_stats(stats) /\ UNCHANGED NotStore
RowsList ==
    list_rows /\ UNCHANGED <<subscribers, sub_state, bus_obs, clientVars, client_obs, analyticsVars, managerVars, wire>>

NextRows == RowsStats \/ RowsList

SpecRows == Init /\ [][NextRows]_vars

\* C27: snapshot() and rows() return every stored row exactly once, rows
\* with a known open interest first in descending open interest (ties by
\* ascending market id), rows with an unknown one after them in ascending
\* market id; neither call changes the store.
C27_RowsOrder ==
    /\ [](call_obs.kind = "rows" =>
            LET out == call_obs.rows
                held == {m \in Markets : call_obs.stored[m] # NoRow}
                known(r) == r["open_interest"] # None
            IN  /\ Len(out) = Cardinality(held)
                /\ Len(call_obs.snapshot) = Len(out)
                /\ \A m \in held : \E i \in 1..Len(out) : out[i] = call_obs.stored[m]
                /\ \A i \in 1..Len(out) : call_obs.snapshot[i] = for_wire(out[i])
                /\ \A i, j \in 1..Len(out) :
                       i < j =>
                           /\ known(out[j]) => known(out[i])
                           /\ (known(out[i]) /\ known(out[j])) =>
                                  \/ Val(out[i]["open_interest"]) > Val(out[j]["open_interest"])
                                  \/ /\ out[i]["open_interest"] = out[j]["open_interest"]
                                     /\ out[i]["market_id"] < out[j]["market_id"]
                           /\ (~known(out[i]) /\ ~known(out[j])) =>
                                  out[i]["market_id"] < out[j]["market_id"])
    /\ [][call_obs' # call_obs =>
              /\ rows' = rows
              /\ pending' = pending
              /\ last_publish' = last_publish
              /\ flush_tasks' = flush_tasks
              /\ queues' = queues
              /\ call_obs'.stored = rows]_vars

\* market 2 is listed before market 1, whose open interest is smaller
C27_Witness ==
    /\ call_obs.kind = "rows"
    /\ Len(call_obs.rows) = 2
    /\ call_obs.rows[1]["market_id"] = 2
    /\ call_obs.rows[2]["open_interest"] # None
    /\ call_obs.snapshot[2]["market_id"] = 1

----------------------------------------------------------------------------
(* dto.py: the two funding variants and the two daily-volume variants       *)

\* stats records of market 1 with every combination of the four variants,
\* the preferred ones 1 or absent, the fallbacks 3 or absent
VariantInputs ==
    {[NullStats(1) EXCEPT !.current_funding_rate = cf, !.funding_rate = fr,
                          !.daily_quote_token_volume = qv,
                          !.daily_base_token_volume = bv] :
        cf \in {None, Some(1)}, fr \in {None, Some(3)},
        qv \in {None, Some(1)}, bv \in {None, Some(3)}}

VariantStats == \E stats \in VariantInputs : merge_stats_call(stats)

SpecVariants == Init /\ [][VariantStats]_vars

\* C28: the funding rate merged into the row is current_funding_rate when it
\* is non-null and funding_rate otherwise; the daily volume merged is
\* daily_quote_token_volume when it is non-null and daily_base_token_volume
\* otherwise; a value that is null in both variants leaves the row's field
\* as it was.
C28_PreferredVariant ==
    call_obs.kind = "stats" =>
        LET s == call_obs.input
            funding == IF s.current_funding_rate # None
                       THEN s.current_funding_rate ELSE s.funding_rate
            volume == IF s.daily_quote_token_volume # None
                      THEN s.daily_quote_token_volume ELSE s.daily_base_token_volume
        IN  /\ call_obs.after["funding_rate"] =
                   IF funding # None THEN funding ELSE call_obs.before["funding_rate"]
            /\ call_obs.after["daily_volume"] =
                   IF volume # None THEN volume ELSE call_obs.before["daily_volume"]
            /\ (funding = None) <=> (s.current_funding_rate = None /\ s.funding_rate = None)
            /\ (volume = None) <=>
                   (s.daily_quote_token_volume = None /\ s.daily_base_token_volume = None)

\* both funding variants present and different: the current one is stored;
\* only the base volume present: it is stored
C28_Witness ==
    /\ call_obs.kind = "stats"
    /\ call_obs.input.current_funding_rate = Some(1)
    /\ call_obs.input.funding_rate = Some(3)
    /\ call_obs.input.daily_quote_token_volume = None
    /\ call_obs.input.daily_base_token_volume = Some(3)
    /\ call_obs.before["funding_rate"] = Some(3)
    /\ call_obs.after["funding_rate"] = Some(1)
    /\ call_obs.after["daily_volume"] = Some(3)

----------------------------------------------------------------------------
(* store.py: the order of merges and emissions of one market                *)

\* C29: under any interleaving of apply_market_stats, apply_order_book and
\* the flush timers, the row staged in pending is the market's latest stored
\* row, and every emission carries the values of the row stored when it was
\* made, a row that is not older than the row behind the emission before it.
C29_EmissionsFollowMerges ==
    /\ [](\A m \in Markets : pending[m] # NoPending => pending[m].row = rows[m])
    /\ [][\A m \in Markets :
              store_obs'.emitted[m] # store_obs.emitted[m] =>
                  LET e == store_obs'.emitted[m]
                      before == store_obs.emitted[m]
                  IN  /\ e.row_at = rows'[m]
                      /\ \A k \in DOMAIN e.update : e.update[k] = for_wire(rows'[m])[k]
                      /\ before # NoEmission =>
                             e.row_at["updated_ms"] >= before.row_at["updated_ms"]]_vars

\* a flush timer emitted two merges of market 1 as one update, and a later
\* merge is staged
C29_Witness ==
    /\ store_obs.emitted[1] # NoEmission
    /\ store_obs.emitted[1].merges = 2
    /\ store_obs.emitted[1].prev_at >= 0
    /\ pending[1] # NoPending
    /\ pending[1].row = rows[1]
    /\ rows[1] # store_obs.emitted[1].row_at

----------------------------------------------------------------------------
(* bus.py: the subscriber set under publish, subscribe, unsubscribe, close  *)

\* C30: a queue is in the subscriber set only while its owner's iteration is
\* active; once the iteration ended, or the bus was closed while the queue
\* was registered, the queue is not in the set, and no step enqueues into a
\* queue that is not in the set.
C30_NoRegistrationLeak ==
    /\ [](\A s \in Subs :
            /\ s \in subscribers => sub_state[s] = "active"
            /\ (sub_state[s] = "done" \/ bus_obs.at_close[s]) => s \notin subscribers)
    /\ [][\A s \in Subs :
              s \notin subscribers =>
                  \/ Len(queues'[s]) <= Len(queues[s])
                  \/ (sub_state[s] = "new" /\ s \in subscribers')]_vars

\* an owner still iterating after close(): a later publish passed it by, its
\* queue holds the sentinel only
C30_Witness ==
    \E s \in Subs :
        /\ bus_obs.at_close[s]
        /\ sub_state[s] = "active"
        /\ s \notin subscribers
        /\ bus_obs.published > bus_obs.joined[s]
        /\ bus_obs.last_pub[s] = NoMessage
        /\ queues[s] = <<CLOSED>>

----------------------------------------------------------------------------
(* ws_manager.py: stop() and start() in turn.  start() returns at once     *)
(* while the task is there and not done; after stop() has returned it      *)
(* clears the stop event and creates a new task that runs run_ws_loop from *)
(* its first line.  The manager, its set of known markets, its outbound    *)
(* queue and the store are the objects of the run before.                  *)

\* (a variant in which the new run begins without the markets known so far)
start_forgets_markets ==
    /\ phase = "stopped"
    /\ phase' = "connecting"
    /\ backoff' = ReconnectBase
    /\ sleep' = NoSleep
    /\ known_markets' = {}
    /\ client_obs' = [client_obs EXCEPT !.retries = 0]
    /\ UNCHANGED <<outbound, reader, sender, socket>>

\* start() with no task: self._stop_event.clear(), asyncio.create_task(run_ws_loop(...))
start ==
    /\ phase = "stopped"
    /\ phase' = "connecting"
    /\ backoff' = ReconnectBase
    /\ sleep' = NoSleep
    /\ client_obs' = [client_obs EXCEPT !.retries = 0]
    /\ UNCHANGED <<known_markets, outbound, reader, sender, socket>>

CycleStats == \E stats \in ClientStatsInputs : _handle_market_stats(stats) /\ UNCHANGED NotClient
CycleBook == \E msg \in ClientBookInputs : _handle_order_book(msg) /\ UNCHANGED NotClient
CycleStart == start /\ UNCHANGED NotSession

NextCycle ==
    \/ ClientConnect \/ ClientConnectFail \/ ClientBackoffDone \/ ClientDisconnect
    \/ ClientResumePut \/ ClientSenderGet \/ ClientSendOk
    \/ CycleStats \/ CycleBook
    \/ StopBegin \/ StopSender \/ StopTaskCancelled \/ StopReturn
    \/ CycleStart

SpecCycle == Init /\ [][NextCycle]_vars

\* C31: no step removes a market.  Across frames, reconnects and cycles of
\* stop() and start() the set of known markets never loses an id and the
\* store never loses a row, and every known market has a row in the store
\* (in every state, so after each stats handler too).
C31_MarketsNeverRemoved ==
    /\ [](\A m \in known_markets : rows[m] # NoRow)
    /\ [][/\ known_markets \subseteq known_markets'
          /\ \A m \in Markets : rows[m] # NoRow => rows'[m] # NoRow]_vars

\* Both markets were discovered, stop() has returned and start() was called
\* again, and the session of the new run has dropped: the loop waits to
\* reconnect with every market known and stored.
C31_Witness ==
    /\ store_obs.closed
    /\ phase = "sleeping"
    /\ client_obs.connect # NoConnect
    /\ client_obs.connect.known_before = Markets
    /\ known_markets = Markets
    /\ \A m \in Markets : rows[m] # NoRow

----------------------------------------------------------------------------
(* ws_manager.py: start(), stop() and is_running() with the tasks told     *)
(* apart.  start() has no await and runs in one step.  stop() suspends in  *)
(* `await self._task` when that task is not done; the task ends in a later *)
(* step of the event loop, and stop() resumes in a step after that one:    *)
(* the wake-up is queued behind whatever was ready when the task ended.    *)
(* What a loop task does while it lives is in the variables of the client  *)
(* loop; here a task is "alive", "cancelled" (cancel() was called, the     *)
(* CancelledError has not yet ended it) or "done".                         *)

\* the tasks that have been created and have not ended
live_tasks(mgr) == {id \in TaskIds : mgr.tasks[id] \in {"alive", "cancelled"}}

\* the id of the task that create_task returns
new_task(mgr) == CHOOSE id \in TaskIds :
                    /\ mgr.tasks[id] = "none"
                    /\ \A other \in TaskIds : mgr.tasks[other] = "none" => id <= other

\* is_running(): self._task is not None and not self._task.done()
manager_is_running(mgr) == mgr.task # 0 /\ mgr.tasks[mgr.task] # "done"

\* start(): return when the task is there and not done; else clear the
\* event and create the task
manager_start ==
    /\ ~manager_is_running(manager)
    /\ \E id \in TaskIds : manager.tasks[id] = "none"
    /\ manager' = [manager EXCEPT !.stop_event = FALSE,
                                  !.task = new_task(manager),
                                  !.tasks[new_task(manager)] = "alive"]
    /\ UNCHANGED <<outbound, flush_tasks, store_obs>>

\* stop() from `await self._task` on: self._task = None, the queue is
\* drained, the store closed
stop_tail(mgr) ==
    /\ manager' = [mgr EXCEPT !.task = 0]
    /\ outbound' = <<>>
    /\ store_close

\* stop() from its first line: the event is set, the sentinel put unless the
\* queue is full; with a task that is not done, cancel() and the await that
\* suspends; with no task or one that is done, on to the end
manager_stop(c) ==
    /\ manager.stops[c] = 0
    /\ IF manager_is_running(manager)
       THEN /\ manager' = [manager EXCEPT !.stop_event = TRUE,
                                          !.tasks[manager.task] = "cancelled",
                                          !.stops[c] = manager.task]
            /\ outbound' = IF Len(outbound) < OutboundMax
                           THEN Append(outbound, SENTINEL) ELSE outbound
            /\ UNCHANGED <<flush_tasks, store_obs>>
       ELSE stop_tail([manager EXCEPT !.stop_event = TRUE])

\* the task that stop() awaits is done: stop() resumes
manager_stop_resume(c) ==
    /\ manager.stops[c] # 0
    /\ manager.tasks[manager.stops[c]] = "done"
    /\ stop_tail([manager EXCEPT !.stops[c] = 0])

\* CancelledError ends run_ws_loop
loop_cancelled(id) ==
    /\ manager.tasks[id] = "cancelled"
    /\ manager' = [manager EXCEPT !.tasks[id] = "done"]
    /\ UNCHANGED <<outbound, flush_tasks, store_obs>>

\* run_ws_loop finds the stop event set and returns
loop_returns(id) ==
    /\ manager.tasks[id] = "alive"
    /\ manager.stop_event
    /\ manager' = [manager EXCEPT !.tasks[id] = "done"]
    /\ UNCHANGED <<outbound, flush_tasks, store_obs>>

NotManagerCalls ==
    <<rows, last_publish, pending, now, queues, busVars, known_markets, phase, reader,
      sender, socket, backoff, sleep, bus_obs, client_obs, call_obs, analyticsVars, wire>>

ManagerStart == manager_start /\ UNCHANGED NotManagerCalls
ManagerStop == \E c \in StopCalls : manager_stop(c) /\ UNCHANGED NotManagerCalls
ManagerStopResume == \E c \in StopCalls : manager_stop_resume(c) /\ UNCHANGED NotManagerCalls
ManagerLoopCancelled == \E id \in TaskIds : loop_cancelled(id) /\ UNCHANGED NotManagerCalls
ManagerLoopReturns == \E id \in TaskIds : loop_returns(id) /\ UNCHANGED NotManagerCalls

NextManager ==
    \/ ManagerStart \/ ManagerStop \/ ManagerStopResume
    \/ ManagerLoopCancelled \/ ManagerLoopReturns

SpecManager == Init /\ [][NextManager]_vars

\* C32: whatever the order of the start() and stop() calls, a start() while
\* a stop() waits for the cancelled task included, at most one loop task is
\* alive, and is_running() is true exactly when one is.
C32_OneLoopTask ==
    /\ Cardinality(live_tasks(manager)) <= 1
    /\ manager_is_running(manager) <=> live_tasks(manager) # {}

----------------------------------------------------------------------------
(* ws_client.py: what one session writes to its socket.  The outbound      *)
(* queue outlives the session: what _handle_connection and the handlers    *)
(* put and the send task did not take, and what the send task put back     *)
(* after a failed write, is there when the next session puts its initial   *)
(* messages behind it.                                                     *)

NotWire == <<storeVars, store_obs, busVars, bus_obs, call_obs, analyticsVars, managerVars>>

SessionConnect == Connect /\ wire' = <<>> /\ UNCHANGED NotWire
SessionConnectFail == ConnectFail /\ UNCHANGED <<NotWire, wire>>
SessionBackoffDone == BackoffDone /\ UNCHANGED <<NotWire, wire>>
SessionResumePut == ReaderResumePut /\ UNCHANGED <<NotWire, wire>>
SessionStats ==
    \E stats \in ClientStatsInputs :
        _handle_market_stats(stats)
            /\ UNCHANGED <<subscribers, sub_state, bus_obs, call_obs, analyticsVars, managerVars, wire>>
SessionSenderGet == SenderGet /\ UNCHANGED <<NotWire, wire>>
SessionSendOk == SendOk /\ wire' = Append(wire, sender.message.channel) /\ UNCHANGED NotWire
SessionSendFail == SendFail /\ UNCHANGED <<NotWire, wire>>
SessionDisconnect == Disconnect /\ UNCHANGED <<NotWire, wire>>

NextSession ==
    \/ SessionConnect \/ SessionConnectFail \/ SessionBackoffDone \/ SessionResumePut
    \/ SessionStats \/ SessionSenderGet \/ SessionSendOk \/ SessionSendFail
    \/ SessionDisconnect

SpecSession == Init /\ [][NextSession]_vars

\* C33: within one session no subscribe for the same channel is written to
\* the socket twice, and the first message written is the subscribe for
\* market_stats/all, also when the session began with messages of the
\* session before still in the outbound queue.
C33_SubscribeOncePerSession ==
    /\ \A i, j \in 1..Len(wire) : i # j => wire[i] # wire[j]
    /\ wire # <<>> => wire[1] = <<"market_stats", "/", "all">>

----------------------------------------------------------------------------
(* ws_client.py, ws_manager.py: frames that are JSON but not an object     *)

\* C34: no frame ends the session.  A frame that decodes to JSON that is not
\* an object (a list, a number, a string, null) is dropped: the session stays
\* connected and reads on, and the store, the known markets and the outbound
\* queue are as they were before the frame.
C34_NotObjectFrameDropped ==
    LET h == client_obs.handled IN
    (h.kind = "malformed" /\ h.frame.json \in NotObjectKinds) =>
        /\ h.continued
        /\ h.unchanged

====
